---- MODULE Spec2Model ----
(***************************************************************************)
(* Carrier integration service: the UPS OAuth token manager                *)
(* (UpsAuthManager), the authenticated HTTP client (UpsHttpClient), the    *)
(* rating operation (UpsRatingOperation) and the rate shopping service     *)
(* (RateShoppingService), as state machines over the JavaScript event      *)
(* loop: one step is the code that runs between two suspension points      *)
(* (await / promise reaction).                                             *)
(***************************************************************************)
EXTENDS Integers, Sequences, FiniteSets, TLC

\* ------------------------------------------------------------------ bounds

\* Credential exchanges (POST /security/v1/oauth/token) per behaviour.
MaxAcq == 3
\* Clock ticks per behaviour, and the length of one tick in milliseconds.
MaxTicks == 1
TickMs == 60000

\* Logical callers that share one UpsAuthManager / UpsHttpClient.
Procs == {1, 2}

\* ------------------------------------------------------- program constants

\* UpsAuthManager.EXPIRY_BUFFER_MS
EXPIRY_BUFFER_MS == 60000

\* ------------------------------------------------------------------ values

NoToken == [accessToken |-> "none", expiresAt |-> 0]

\* The absent error (no rejection).
NoErr ==
  [type |-> "none", code |-> "none", httpStatus |-> 0, retryable |-> FALSE,
   retryAfterMs |-> -1, carrier |-> "none"]

\* new CarrierError({code, carrier, httpStatus, retryable, retryAfterMs}):
\* httpStatus 0 and retryAfterMs -1 stand for undefined.
CarrierError(code, carrier, httpStatus, retryable, retryAfterMs) ==
  [type |-> "CarrierError", code |-> code, httpStatus |-> httpStatus,
   retryable |-> retryable, retryAfterMs |-> retryAfterMs, carrier |-> carrier]

\* enum CarrierErrorCode
CarrierErrorCode ==
  {"AUTH_FAILED", "AUTH_TOKEN_EXPIRED", "VALIDATION_ERROR", "NETWORK_ERROR",
   "TIMEOUT", "RATE_LIMITED", "CARRIER_API_ERROR", "CARRIER_UNAVAILABLE",
   "MALFORMED_RESPONSE", "BAD_REQUEST", "NOT_FOUND", "FORBIDDEN",
   "CONFIGURATION_ERROR", "UNKNOWN"}

\* The error factory functions of errors.ts.
authError(carrier, httpStatus) ==
  CarrierError("AUTH_FAILED", carrier, httpStatus, FALSE, -1)

validationError ==
  CarrierError("VALIDATION_ERROR", "none", 0, FALSE, -1)

networkError(carrier) ==
  CarrierError("NETWORK_ERROR", carrier, 0, TRUE, -1)

timeoutError(carrier) ==
  CarrierError("TIMEOUT", carrier, 0, TRUE, -1)

rateLimitError(carrier, retryAfterMs) ==
  CarrierError("RATE_LIMITED", carrier, 429, TRUE, retryAfterMs)

\* carrierApiError() that marks every status as final
carrierApiError_neverRetryable(carrier, httpStatus) ==
  CarrierError("CARRIER_API_ERROR", carrier, httpStatus, FALSE, -1)

carrierApiError(carrier, httpStatus) ==
  CarrierError("CARRIER_API_ERROR", carrier, httpStatus, httpStatus >= 500, -1)

malformedResponseError(carrier) ==
  CarrierError("MALFORMED_RESPONSE", carrier, 0, FALSE, -1)

configurationError ==
  CarrierError("CONFIGURATION_ERROR", "none", 0, FALSE, -1)

\* What a rejected axios call throws.  An AxiosError has an optional code and
\* an optional response (hasResponse) with a status and an optional
\* retry-after header in seconds (-1: header absent); anything else that can
\* be thrown is a plain Error.
AxiosError(code, hasResponse, status, retryAfter) ==
  [type |-> "AxiosError", code |-> code, hasResponse |-> hasResponse,
   status |-> status, retryAfter |-> retryAfter]

PlainError ==
  [type |-> "Error", code |-> "", hasResponse |-> FALSE, status |-> 0,
   retryAfter |-> -1]

\* Nothing was thrown.
NoRaw ==
  [type |-> "none", code |-> "", hasResponse |-> FALSE, status |-> 0,
   retryAfter |-> -1]

\* axios.isAxiosError(error)
isAxiosError(error) == error.type = "AxiosError"

\* error instanceof CarrierError
isCarrierError(error) == error.type = "CarrierError"

\* retryAfter ? Number(retryAfter) * 1000 : undefined
retryAfterMsOf(retryAfter) ==
  IF retryAfter = -1 THEN -1 ELSE retryAfter * 1000

\* ------------------------------------------------ UpsAuthManager (auth.ts)

\* private inflightRequest: Promise<TokenData> | null = null
NoInflight == 0

\* classifyAuthError(error) that takes a 429 for one more failed status
classifyAuthError_no429(error) ==
  IF isAxiosError(error)
  THEN IF error.code = "ECONNABORTED" \/ error.code = "ETIMEDOUT"
       THEN timeoutError("UPS")
       ELSE IF ~error.hasResponse
       THEN networkError("UPS")
       ELSE authError("UPS", error.status)
  ELSE authError("UPS", 0)

\* classifyAuthError(error): map a raw error of the credential exchange to a
\* CarrierError.
classifyAuthError(error) ==
  IF isAxiosError(error)
  THEN IF error.code = "ECONNABORTED" \/ error.code = "ETIMEDOUT"
       THEN timeoutError("UPS")
       ELSE IF ~error.hasResponse
       THEN networkError("UPS")
       ELSE IF error.status = 401 \/ error.status = 403
       THEN authError("UPS", error.status)
       ELSE IF error.status = 429
       THEN CarrierError("RATE_LIMITED", "UPS", 429, TRUE,
                         retryAfterMsOf(error.retryAfter))
       ELSE authError("UPS", error.status)
  ELSE authError("UPS", 0)

\* What the credential exchange answers: a 2xx response with a body
\* {access_token, expires_in} ("" and 0: field absent or falsy), or a raw
\* error thrown by the HTTP client.
TokenResponse(access_token, expires_in) ==
  [type |-> "response", access_token |-> access_token,
   expires_in |-> expires_in]

\* The settled value of acquireToken(): TokenData, or the CarrierError it
\* throws.  t is Date.now() when the response is processed.
AcqOk(data) == [ok |-> TRUE, data |-> data, err |-> NoErr]
AcqErr(err) == [ok |-> FALSE, data |-> NoToken, err |-> err]

\* acquireToken(): the token data of a complete response, else a CarrierError
acquireToken(outcome, t) ==
  IF outcome.type = "response"
  THEN IF outcome.access_token = "" \/ outcome.expires_in = 0
       THEN AcqErr(authError("UPS", 200))
       ELSE AcqOk([accessToken |-> outcome.access_token,
                   expiresAt |-> t + outcome.expires_in * 1000])
  ELSE IF isCarrierError(outcome)
  THEN AcqErr(outcome)
  ELSE AcqErr(classifyAuthError(outcome))

\* isExpired(token) that lets the token live up to the buffer's edge
isExpired_afterEdge(tk, t) == t > tk.expiresAt - EXPIRY_BUFFER_MS

\* isExpired(token): Date.now() >= token.expiresAt - EXPIRY_BUFFER_MS
isExpired(tk, t) == t >= tk.expiresAt - EXPIRY_BUFFER_MS

\* The domain's service levels (common.ts).
ServiceLevels ==
  {"GROUND", "EXPRESS", "EXPRESS_PLUS", "EXPEDITED", "STANDARD",
   "NEXT_DAY_AIR", "NEXT_DAY_AIR_EARLY", "NEXT_DAY_AIR_SAVER",
   "SECOND_DAY_AIR", "SECOND_DAY_AIR_AM", "THREE_DAY_SELECT", "SAVER"}

\* undefined, where a string is expected (an optional field that is absent,
\* a table without the key).
Undefined == ""

\* ------------------------------------- UPS rating wire format (types.ts)

\* An itemized charge (UpsItemizedCharge); Description may be absent
\* (Undefined), MonetaryValue is the string of the wire.
ItemizedCharge(Code, Description, CurrencyCode, MonetaryValue) ==
  [Code |-> Code, Description |-> Description,
   CurrencyCode |-> CurrencyCode, MonetaryValue |-> MonetaryValue]

\* The ItemizedCharges field of a rated shipment: absent, one object (obj)
\* or an array (arr), as isArray tells.
Itemized(present, isArray, obj, arr) ==
  [present |-> present, isArray |-> isArray, obj |-> obj, arr |-> arr]

NoItemized ==
  Itemized(FALSE, FALSE, ItemizedCharge("", Undefined, "", "0.00"), <<>>)

\* A rated shipment of the carrier's response: its Service.Code ("": the
\* Service block is absent) and its TotalCharges.MonetaryValue.
RatedShipment(code, total) ==
  [Service |-> code, TotalCharges |-> total, ItemizedCharges |-> NoItemized]

NoShipment == RatedShipment("", 0)

\* A response body.  wrapper: the RateResponse wrapper is present; present:
\* its RatedShipment field is present; the field is one object (obj) or an
\* array (arr), as isArray tells.
Body(wrapper, present, isArray, obj, arr) ==
  [wrapper |-> wrapper, present |-> present, isArray |-> isArray,
   obj |-> obj, arr |-> arr]

NoBody == Body(FALSE, FALSE, FALSE, NoShipment, <<>>)

\* ------------------------------------------- rating mapper and operation

\* The code-to-level table with the entries of '07' and '08' exchanged.
UPS_SERVICE_CODE_TO_LEVEL_exchanged ==
  "01" :> "NEXT_DAY_AIR" @@ "02" :> "SECOND_DAY_AIR" @@ "03" :> "GROUND" @@
  "07" :> "EXPEDITED" @@ "08" :> "EXPRESS" @@ "11" :> "STANDARD" @@
  "12" :> "THREE_DAY_SELECT" @@ "13" :> "NEXT_DAY_AIR_SAVER" @@
  "14" :> "NEXT_DAY_AIR_EARLY" @@ "54" :> "EXPRESS_PLUS" @@
  "59" :> "SECOND_DAY_AIR_AM" @@ "65" :> "SAVER"

UPS_SERVICE_CODE_TO_LEVEL ==
  "01" :> "NEXT_DAY_AIR" @@ "02" :> "SECOND_DAY_AIR" @@ "03" :> "GROUND" @@
  "07" :> "EXPRESS" @@ "08" :> "EXPEDITED" @@ "11" :> "STANDARD" @@
  "12" :> "THREE_DAY_SELECT" @@ "13" :> "NEXT_DAY_AIR_SAVER" @@
  "14" :> "NEXT_DAY_AIR_EARLY" @@ "54" :> "EXPRESS_PLUS" @@
  "59" :> "SECOND_DAY_AIR_AM" @@ "65" :> "SAVER"

SERVICE_LEVEL_TO_UPS_CODE ==
  "NEXT_DAY_AIR" :> "01" @@ "SECOND_DAY_AIR" :> "02" @@ "GROUND" :> "03" @@
  "EXPRESS" :> "07" @@ "EXPEDITED" :> "08" @@ "STANDARD" :> "11" @@
  "THREE_DAY_SELECT" :> "12" @@ "NEXT_DAY_AIR_SAVER" :> "13" @@
  "NEXT_DAY_AIR_EARLY" :> "14" @@ "EXPRESS_PLUS" :> "54" @@
  "SECOND_DAY_AIR_AM" :> "59" @@ "SAVER" :> "65"

UPS_SERVICE_NAMES ==
  "01" :> "UPS Next Day Air" @@ "02" :> "UPS 2nd Day Air" @@
  "03" :> "UPS Ground" @@ "07" :> "UPS Worldwide Express" @@
  "08" :> "UPS Worldwide Expedited" @@ "11" :> "UPS Standard" @@
  "12" :> "UPS 3 Day Select" @@ "13" :> "UPS Next Day Air Saver" @@
  "14" :> "UPS Next Day Air Early" @@ "54" :> "UPS Worldwide Express Plus" @@
  "59" :> "UPS 2nd Day Air A.M." @@ "65" :> "UPS Worldwide Saver"

\* table[key] of a JavaScript object used as a table
Lookup(table, key) ==
  IF key \in DOMAIN table THEN table[key] ELSE Undefined

\* No Service block in the wire request.
NoService == [Code |-> Undefined, Description |-> Undefined]

\* mapToUpsRateRequest(request, accountNumber): the RequestOption and the
\* Service block of the payload.
mapToUpsRateRequest(req) ==
  LET requestOption == IF req.serviceLevel /= Undefined THEN "Rate"
                       ELSE "Shop"
      serviceCode == Lookup(SERVICE_LEVEL_TO_UPS_CODE, req.serviceLevel)
  IN [RequestOption |-> requestOption,
      Service |->
        IF req.serviceLevel /= Undefined /\ serviceCode /= Undefined
        THEN [Code |-> serviceCode,
              Description |-> Lookup(UPS_SERVICE_NAMES, serviceCode)]
        ELSE NoService]

\* getRates() that always calls the Shop endpoint
ratesCall_alwaysShop(req) ==
  [path |-> "Shop", payload |-> mapToUpsRateRequest(req)]

\* getRates(request), lines 27-31: the endpoint variant (the last segment of
\* the path) and the payload given to httpClient.post().
ratesCall(req) ==
  [path |-> IF req.serviceLevel /= Undefined THEN "Rate" ELSE "Shop",
   payload |-> mapToUpsRateRequest(req)]

\* A Surcharge: its code, description, amount.amount (in hundredths) and
\* amount.currency.
Surcharge(code, description, amount, currency) ==
  [code |-> code, description |-> description, amount |-> amount,
   currency |-> currency]

\* A RateQuote: its carrier, service code, totalCharges.amount, service
\* level and surcharges.
RateQuote(carrier, serviceCode, amount) ==
  [carrier |-> carrier, serviceCode |-> serviceCode, amount |-> amount,
   serviceLevel |-> "STANDARD", surcharges |-> <<>>]

\* Not a number.
NaN == [nan |-> TRUE, n |-> 0]

\* parseFloat(string) of the monetary values of the wire, in hundredths.
parseFloat(string) ==
  CASE string = "0.00" -> [nan |-> FALSE, n |-> 0]
    [] string = "1.50" -> [nan |-> FALSE, n |-> 150]
    [] string = "2.5" -> [nan |-> FALSE, n |-> 250]
    [] string = "-0.50" -> [nan |-> FALSE, n |-> -50]
    [] OTHER -> NaN

\* x > 0 of JavaScript numbers: false for NaN
GreaterThanZero(x) == ~x.nan /\ x.n > 0

\* mapUpsSurcharges() that drops the lines of negative amount only
mapUpsSurcharges_keepZero(itemized) ==
  IF ~itemized.present THEN <<>>
  ELSE LET charges == IF itemized.isArray THEN itemized.arr
                      ELSE <<itemized.obj>>
           kept == SelectSeq(charges,
                     LAMBDA c : ~parseFloat(c.MonetaryValue).nan
                                /\ parseFloat(c.MonetaryValue).n >= 0)
       IN [i \in 1..Len(kept) |->
             Surcharge(kept[i].Code,
                       IF kept[i].Description /= Undefined
                       THEN kept[i].Description
                       ELSE "Surcharge " \o kept[i].Code,
                       parseFloat(kept[i].MonetaryValue).n,
                       kept[i].CurrencyCode)]

\* mapUpsSurcharges(itemized)
mapUpsSurcharges(itemized) ==
  IF ~itemized.present THEN <<>>
  ELSE LET charges == IF itemized.isArray THEN itemized.arr
                      ELSE <<itemized.obj>>
           kept == SelectSeq(charges,
                     LAMBDA c : GreaterThanZero(parseFloat(c.MonetaryValue)))
       IN [i \in 1..Len(kept) |->
             Surcharge(kept[i].Code,
                       IF kept[i].Description /= Undefined
                       THEN kept[i].Description
                       ELSE "Surcharge " \o kept[i].Code,
                       parseFloat(kept[i].MonetaryValue).n,
                       kept[i].CurrencyCode)]

\* mapFromUpsRatedShipment(rated); reading rated.Service.Code of a shipment
\* without a Service block throws a TypeError (mapThrows).
mapThrows(rated) == rated.Service = ""

mapFromUpsRatedShipment(rated) ==
  [RateQuote("UPS", rated.Service, rated.TotalCharges) EXCEPT
     !.serviceLevel =
        IF Lookup(UPS_SERVICE_CODE_TO_LEVEL, rated.Service) /= Undefined
        THEN Lookup(UPS_SERVICE_CODE_TO_LEVEL, rated.Service)
        ELSE "STANDARD",
     !.surcharges = mapUpsSurcharges(rated.ItemizedCharges)]

\* Array.prototype.sort((a, b) => a.totalCharges.amount - b.totalCharges.amount):
\* a stable sort by amount ascending (insertion of each element after the
\* elements that are not greater).
RECURSIVE insertByAmount_beforeEqual(_, _)
insertByAmount_beforeEqual(sorted, q) ==
  IF sorted = <<>>
  THEN <<q>>
  ELSE IF q.amount <= Head(sorted).amount
  THEN <<q>> \o sorted
  ELSE <<Head(sorted)>> \o insertByAmount_beforeEqual(Tail(sorted), q)

RECURSIVE insertByAmount(_, _)
insertByAmount(sorted, q) ==
  IF sorted = <<>>
  THEN <<q>>
  ELSE IF q.amount < Head(sorted).amount
  THEN <<q>> \o sorted
  ELSE <<Head(sorted)>> \o insertByAmount(Tail(sorted), q)

\* The quotes as they were mapped, not sorted
sortByAmount_unsorted(quotes) == quotes

RECURSIVE sortByAmount(_)
sortByAmount(quotes) ==
  IF quotes = <<>>
  THEN <<>>
  ELSE insertByAmount(sortByAmount(SubSeq(quotes, 1, Len(quotes) - 1)),
                      quotes[Len(quotes)])

\* The shipments taken for an array whatever they are
normalizeShipments_arrayOnly(body) == body.arr

\* Array.isArray(ratedShipments) ? ratedShipments : [ratedShipments]
normalizeShipments(body) ==
  IF body.isArray THEN body.arr ELSE <<body.obj>>

\* ------------------------------------------------------------------- state

VARIABLES
  token,            \* UpsAuthManager.token (NoToken: null)
  inflightRequest,  \* UpsAuthManager.inflightRequest: the id of the pending
                    \* acquisition promise, or NoInflight (null)
  acq,              \* the acquisitions started so far, by id: the state of
                    \* their promise and its settled value
  deliveries,       \* the settled acquisitions whose awaiters have not
                    \* resumed yet, in settling order (the reaction jobs of
                    \* the microtask queue)
  now,              \* Date.now()
  pc,               \* where each caller is
  op,               \* the operation each caller is running
  awaiting,         \* the acquisition the caller's getAccessToken() joined
                    \* (await this.inflightRequest); 0: served from the cache
  tok,              \* makeRequest's local token
  retry,            \* post(): inside the catch block's second makeRequest()
  res,              \* the settled result of the caller's operation
  nGet,             \* getAccessToken() calls made by the current operation
  nInval,           \* invalidateToken() calls made by the current operation
  nHttp,            \* rating HTTP attempts issued by the current operation
  firstErr,         \* history: what the first rating attempt of the current
                    \* operation threw (NoRaw: nothing)
  inval             \* history: invalidateToken() was called since the last
                    \* getAccessToken() call

coreVars ==
  <<token, inflightRequest, acq, deliveries, now, pc, op, awaiting, tok,
    retry, res, nGet, nInval, nHttp, firstErr, inval>>

\* A function of the program applied on its own: the function with its
\* argument, and what it returned or threw.
VARIABLES
  arg,
  ret

pureVars == <<arg, ret>>

\* Results of an operation.
VARIABLES
  registry,   \* CarrierRegistry.carriers: the providers, in insertion order
  qpc,        \* where the getQuotes() call is
  request,    \* its request
  carriers,   \* its resolved carrier ids
  results,    \* the state of the carriers' tasks given to allSettled()
  calls,      \* the carriers whose provider.getRates() it has called
  order,      \* history: the tasks (positions in carriers) in the order in
              \* which they settled
  qres        \* how it settled

quoteVars ==
  <<registry, qpc, request, carriers, results, calls, order, qres>>

Provider(carrierId, supportedOperations) ==
  [carrierId |-> carrierId, supportedOperations |-> supportedOperations]

\* No provider.
NoProvider == Provider("none", {})

NoRequest == [packages |-> 0, carriers |-> <<>>]

PendingResult == [status |-> "pending", value |-> <<>>, reason |-> NoErr]
FulfilledResult(value) == [PendingResult EXCEPT !.status = "fulfilled",
                                                !.value = value]
RejectedResult(reason) == [PendingResult EXCEPT !.status = "rejected",
                                                !.reason = reason]

NoQuotesResult == [st |-> "none", quotes |-> <<>>, carriers |-> <<>>,
                   err |-> NoErr]
QuotesResolved(quotes, cs) == [NoQuotesResult EXCEPT !.st = "resolved",
                                                     !.quotes = quotes,
                                                     !.carriers = cs]
QuotesRejected(e) == [NoQuotesResult EXCEPT !.st = "rejected", !.err = e]

\* No function is applied on its own.
NoArg == [fn |-> "none", x |-> 0]

NoRes ==
  [st |-> "none", token |-> "none", body |-> NoBody, quotes |-> <<>>,
   err |-> NoErr, value |-> <<>>]

ResolvedToken(t) == [NoRes EXCEPT !.st = "resolved", !.token = t]
ResolvedBody(b) == [NoRes EXCEPT !.st = "resolved", !.body = b]
ResolvedQuotes(q) == [NoRes EXCEPT !.st = "resolved", !.quotes = q]
Rejected(e) == [NoRes EXCEPT !.st = "rejected", !.err = e]

\* expiresIn is history: the expires_in of the response that settled the
\* acquisition (0: none).
Pending == [st |-> "pending", val |-> AcqErr(NoErr), expiresIn |-> 0]
Delivered == [st |-> "delivered", val |-> AcqErr(NoErr), expiresIn |-> 0]

\* data.expires_in of what the exchange answered
expiresInOf(outcome) ==
  IF outcome.type = "response" THEN outcome.expires_in ELSE 0

\* hasValidToken() that asks for a token only
hasValidToken_anyToken == token /= NoToken

\* hasValidToken()
hasValidToken == token /= NoToken /\ ~isExpired(token, now)

\* getAccessToken(), line 56: the cached token is served.
servesFromCache(cur) == cur /= NoToken /\ ~isExpired(cur, now)

\* getAccessToken(), line 61: if (!this.inflightRequest)
inflightAbsent_always == TRUE

inflightAbsent == inflightRequest = NoInflight

\* .finally(() => { this.inflightRequest = null; })
inflightAfterSettle_kept == inflightRequest

inflightAfterSettle == NoInflight

\* invalidateToken(): this.token = null
invalidatedToken_kept == token

invalidatedToken == NoToken

\* parseResponse(response) that takes a missing RatedShipment for no rates
parseResponse_missingAsEmpty(body) ==
  IF ~body.wrapper
  THEN Rejected(malformedResponseError("UPS"))
  ELSE IF ~body.present
  THEN ResolvedQuotes(<<>>)
  ELSE LET shipments == normalizeShipments(body)
       IN IF \E i \in DOMAIN shipments : mapThrows(shipments[i])
          THEN Rejected(malformedResponseError("UPS"))
          ELSE ResolvedQuotes(sortByAmount(
                 [i \in DOMAIN shipments |->
                    mapFromUpsRatedShipment(shipments[i])]))

\* UpsRatingOperation.parseResponse(response): the quotes, or the
\* CarrierError it throws.
parseResponse(body) ==
  IF ~body.wrapper
  THEN Rejected(malformedResponseError("UPS"))
  ELSE IF ~body.present
  THEN Rejected(malformedResponseError("UPS"))
  ELSE LET shipments == normalizeShipments(body)
       IN IF \E i \in DOMAIN shipments : mapThrows(shipments[i])
          THEN Rejected(malformedResponseError("UPS"))
          ELSE ResolvedQuotes(sortByAmount(
                 [i \in DOMAIN shipments |->
                    mapFromUpsRatedShipment(shipments[i])]))

\* ------------------------------------------------ UpsHttpClient (client.ts)

\* classifyError(error) that hands the error on as it came
classifyError_passesRaw(error) == error

\* classifyError(error) that looks at the response before the error code
classifyError_statusFirst(error) ==
  IF isCarrierError(error)
  THEN error
  ELSE IF isAxiosError(error)
  THEN IF error.hasResponse
       THEN IF error.status = 429
            THEN rateLimitError("UPS", retryAfterMsOf(error.retryAfter))
            ELSE IF error.status = 401
            THEN CarrierError("AUTH_FAILED", "UPS", error.status, FALSE, -1)
            ELSE IF error.status = 403
            THEN CarrierError("FORBIDDEN", "UPS", error.status, FALSE, -1)
            ELSE carrierApiError("UPS", error.status)
       ELSE IF error.code = "ECONNABORTED" \/ error.code = "ETIMEDOUT"
       THEN timeoutError("UPS")
       ELSE networkError("UPS")
  ELSE malformedResponseError("UPS")

\* classifyError(error) that has no CarrierError pass-through
classifyError_rewrapsCarrierError(error) ==
  IF isAxiosError(error)
  THEN IF error.code = "ECONNABORTED" \/ error.code = "ETIMEDOUT"
       THEN timeoutError("UPS")
       ELSE IF ~error.hasResponse
       THEN networkError("UPS")
       ELSE IF error.status = 429
       THEN rateLimitError("UPS", retryAfterMsOf(error.retryAfter))
       ELSE IF error.status = 401
       THEN CarrierError("AUTH_FAILED", "UPS", error.status, FALSE, -1)
       ELSE IF error.status = 403
       THEN CarrierError("FORBIDDEN", "UPS", error.status, FALSE, -1)
       ELSE carrierApiError("UPS", error.status)
  ELSE malformedResponseError("UPS")

\* classifyError(error): map whatever a request threw to a CarrierError.
classifyError(error) ==
  IF isCarrierError(error)
  THEN error
  ELSE IF isAxiosError(error)
  THEN IF error.code = "ECONNABORTED" \/ error.code = "ETIMEDOUT"
       THEN timeoutError("UPS")
       ELSE IF ~error.hasResponse
       THEN networkError("UPS")
       ELSE IF error.status = 429
       THEN rateLimitError("UPS", retryAfterMsOf(error.retryAfter))
       ELSE IF error.status = 401
       THEN CarrierError("AUTH_FAILED", "UPS", error.status, FALSE, -1)
       ELSE IF error.status = 403
       THEN CarrierError("FORBIDDEN", "UPS", error.status, FALSE, -1)
       ELSE carrierApiError("UPS", error.status)
  ELSE malformedResponseError("UPS")

\* post(), line 76: axios.isAxiosError(error) && error.response?.status === 401
isAuthRejection(error) ==
  isAxiosError(error) /\ error.hasResponse /\ error.status = 401

\* ------------------------------------------------------------------ inputs

\* access_token strings and expires_in seconds the token endpoint may issue.
Tokens == {"t1", "t2"}
ExpiresIn == {60, 120}

\* Raw errors an HTTP call may throw.
RawErrors ==
  {AxiosError("ECONNABORTED", FALSE, 0, -1),
   AxiosError("", FALSE, 0, -1),
   AxiosError("", TRUE, 401, -1),
   AxiosError("", TRUE, 403, -1),
   AxiosError("", TRUE, 429, 2),
   AxiosError("", TRUE, 400, -1),
   AxiosError("", TRUE, 500, -1),
   PlainError}

\* What the credential exchange may answer.
TokenOutcomes ==
  {TokenResponse(t, e) : t \in Tokens, e \in ExpiresIn}
    \cup {TokenResponse("", 120), TokenResponse("t1", 0)}
    \cup RawErrors

\* Bodies the rating endpoint may answer with.
Bodies ==
  {Body(FALSE, FALSE, FALSE, NoShipment, <<>>),
   Body(TRUE, FALSE, FALSE, NoShipment, <<>>),
   Body(TRUE, TRUE, FALSE, RatedShipment("03", 15), <<>>),
   Body(TRUE, TRUE, TRUE, NoShipment,
        <<RatedShipment("01", 28), RatedShipment("03", 15)>>),
   Body(TRUE, TRUE, TRUE, NoShipment, <<NoShipment>>),
   Body(TRUE, TRUE, TRUE, NoShipment, <<>>)}

\* The inputs of the concurrent specification: two credentials, one of them
\* also with a lifetime inside the expiry buffer, a rejected and a timed-out
\* exchange; one body; a 401, a 500 and a non-HTTP failure.
CoreTokenOutcomes ==
  {TokenResponse("t1", 120), TokenResponse("t2", 120), TokenResponse("t1", 60),
   AxiosError("", TRUE, 401, -1), AxiosError("ECONNABORTED", FALSE, 0, -1)}

CoreBodies == {Body(TRUE, TRUE, FALSE, RatedShipment("03", 15), <<>>)}

CoreErrors ==
  {AxiosError("", TRUE, 401, -1), AxiosError("", TRUE, 500, -1), PlainError}

\* ----------------------------------------------------------------- actions

\* The state after construction of the auth manager, the client and the
\* rate-shopping service.
Constructed ==
  /\ token = NoToken
  /\ inflightRequest = NoInflight
  /\ acq = <<>>
  /\ deliveries = <<>>
  /\ now = 0
  /\ pc = [p \in Procs |-> "idle"]
  /\ op = [p \in Procs |-> "none"]
  /\ awaiting = [p \in Procs |-> 0]
  /\ tok = [p \in Procs |-> "none"]
  /\ retry = [p \in Procs |-> FALSE]
  /\ res = [p \in Procs |-> NoRes]
  /\ nGet = [p \in Procs |-> 0]
  /\ nInval = [p \in Procs |-> 0]
  /\ nHttp = [p \in Procs |-> 0]
  /\ firstErr = [p \in Procs |-> NoRaw]
  /\ inval = FALSE
  /\ qpc = "idle"
  /\ request = NoRequest
  /\ carriers = <<>>
  /\ results = <<>>
  /\ calls = <<>>
  /\ order = <<>>
  /\ qres = NoQuotesResult

Init ==
  /\ Constructed
  /\ registry = <<>>
  /\ arg = NoArg
  /\ ret = NoRes

\* getAccessToken() up to its first suspension, called by p running
\* operation o, when this.token is cur, the operation has made n calls of
\* it before.  The cached token is returned; or the caller awaits the
\* in-flight acquisition, which it starts (one credential-exchange POST) when
\* there is none.
GetAccessToken(p, o, cur, n) ==
  /\ nGet' = [nGet EXCEPT ![p] = n + 1]
  /\ inval' = FALSE
  /\ IF servesFromCache(cur)
     THEN /\ tok' = [tok EXCEPT ![p] = cur.accessToken]
          /\ awaiting' = [awaiting EXCEPT ![p] = 0]
          /\ pc' = [pc EXCEPT ![p] = IF o = "get" THEN "done" ELSE "haveToken"]
          /\ res' = [res EXCEPT ![p] =
                       IF o = "get" THEN ResolvedToken(cur.accessToken)
                       ELSE NoRes]
          /\ UNCHANGED <<inflightRequest, acq>>
     ELSE /\ tok' = [tok EXCEPT ![p] = "none"]
          /\ pc' = [pc EXCEPT ![p] = "awaitToken"]
          /\ res' = [res EXCEPT ![p] = NoRes]
          /\ IF inflightAbsent
             THEN /\ Len(acq) < MaxAcq
                  /\ acq' = Append(acq, Pending)
                  /\ inflightRequest' = Len(acq) + 1
                  /\ awaiting' = [awaiting EXCEPT ![p] = Len(acq) + 1]
             ELSE /\ awaiting' = [awaiting EXCEPT ![p] = inflightRequest]
                  /\ UNCHANGED <<inflightRequest, acq>>

\* A caller starts an operation: getAccessToken() itself ("get"),
\* UpsHttpClient.post() ("post"), or UpsRatingOperation.getRates() ("rates"),
\* whose first step is makeRequest()'s getAccessToken().
StartCall(p, o) ==
  /\ pc[p] \in {"idle", "done"}
  /\ op' = [op EXCEPT ![p] = o]
  /\ retry' = [retry EXCEPT ![p] = FALSE]
  /\ nInval' = [nInval EXCEPT ![p] = 0]
  /\ nHttp' = [nHttp EXCEPT ![p] = 0]
  /\ firstErr' = [firstErr EXCEPT ![p] = NoRaw]
  /\ GetAccessToken(p, o, token, 0)
  /\ UNCHANGED <<token, deliveries, now>>

\* A call made while no getQuotes() call is involved.
Call(p, o) == StartCall(p, o) /\ UNCHANGED <<quoteVars, pureVars>>

\* The credential exchange of acquisition a is answered.  acquireToken()
\* settles, and the finally callback empties the in-flight slot; the
\* awaiters resume later, from the microtask queue.
Settle(a, outcome) ==
  /\ a \in DOMAIN acq
  /\ acq[a].st = "pending"
  /\ acq' = [acq EXCEPT ![a] = [st |-> "settled",
                                val |-> acquireToken(outcome, now),
                                expiresIn |-> expiresInOf(outcome)]]
  /\ inflightRequest' = inflightAfterSettle
  /\ deliveries' = Append(deliveries, a)
  /\ UNCHANGED <<token, now, pc, op, awaiting, tok, retry, res, nGet,
                 nInval, nHttp, firstErr, inval>>
  /\ UNCHANGED <<quoteVars, pureVars>>

\* post(), catch blocks: a rejection of makeRequest() that is not retried
\* is classified and thrown.
postRejection(error) == Rejected(classifyError(error))

\* getAccessToken() that stores the token data only when none is cached
storedToken_unlessCached(v) == IF v.ok /\ token = NoToken THEN v.data ELSE token

\* getAccessToken(), lines 67-68: a resolved await stores the token data; a
\* rejected one throws before the assignment.
storedToken(v) == IF v.ok THEN v.data ELSE token

\* The awaiters of the oldest settled acquisition resume, one after the
\* other with nothing in between.  On success each stores the token
\* (this.token = tokenData) and returns its string; on failure the await
\* throws, and post() classifies and rethrows.
Deliver ==
  /\ deliveries /= <<>>
  /\ LET a == Head(deliveries)
         v == acq[a].val
         W == {p \in Procs : pc[p] = "awaitToken" /\ awaiting[p] = a}
     IN /\ deliveries' = Tail(deliveries)
        /\ acq' = [acq EXCEPT ![a] = Delivered]
        /\ token' = IF W /= {} THEN storedToken(v) ELSE token
        /\ tok' = [p \in Procs |->
                     IF p \in W /\ v.ok THEN v.data.accessToken ELSE tok[p]]
        /\ pc' = [p \in Procs |->
                    IF p \notin W THEN pc[p]
                    ELSE IF v.ok /\ op[p] /= "get" THEN "haveToken"
                    ELSE "done"]
        /\ res' = [p \in Procs |->
                     IF p \notin W THEN res[p]
                     ELSE IF v.ok
                     THEN IF op[p] = "get"
                          THEN ResolvedToken(v.data.accessToken)
                          ELSE res[p]
                     ELSE IF op[p] = "get"
                     THEN Rejected(v.err)
                     ELSE postRejection(v.err)]
  /\ UNCHANGED <<inflightRequest, now, op, awaiting, retry, nGet, nInval,
                 nHttp, firstErr, inval>>
  /\ UNCHANGED <<quoteVars, pureVars>>

\* makeRequest() after its await: the rating request is sent with the token.
Send(p) ==
  /\ pc[p] = "haveToken"
  /\ pc' = [pc EXCEPT ![p] = "awaitHttp"]
  /\ nHttp' = [nHttp EXCEPT ![p] = nHttp[p] + 1]
  /\ UNCHANGED <<token, inflightRequest, acq, deliveries, now, op, awaiting,
                 tok, retry, res, nGet, nInval, firstErr, inval>>
  /\ UNCHANGED <<quoteVars, pureVars>>

\* The rating request is answered with a body: post() returns it, and
\* getRates() parses it.
HttpSuccess(p, body) ==
  /\ pc[p] = "awaitHttp"
  /\ pc' = [pc EXCEPT ![p] = "done"]
  /\ res' = [res EXCEPT ![p] =
               IF op[p] = "rates" THEN parseResponse(body)
               ELSE ResolvedBody(body)]
  /\ UNCHANGED <<token, inflightRequest, acq, deliveries, now, op, awaiting,
                 tok, retry, nGet, nInval, nHttp, firstErr, inval>>
  /\ UNCHANGED <<quoteVars, pureVars>>

\* post(), lines 74-77: the failure is retried when it is the first one and
\* an authentication rejection.
mayRetry_always(p, error) == isAuthRejection(error)

mayRetry_anyResponse(p, error) ==
  ~retry[p] /\ isAxiosError(error) /\ error.hasResponse

mayRetry(p, error) == ~retry[p] /\ isAuthRejection(error)

\* The rating request fails.  A 401 on the first attempt invalidates the
\* token and runs makeRequest() once more, up to its await; anything else is
\* classified and thrown.
HttpFailure(p, error) ==
  /\ pc[p] = "awaitHttp"
  /\ firstErr' = [firstErr EXCEPT ![p] = IF retry[p] THEN firstErr[p] ELSE error]
  /\ IF mayRetry(p, error)
     THEN /\ token' = invalidatedToken
          /\ nInval' = [nInval EXCEPT ![p] = nInval[p] + 1]
          /\ retry' = [retry EXCEPT ![p] = TRUE]
          /\ GetAccessToken(p, op[p], invalidatedToken, nGet[p])
          /\ UNCHANGED <<deliveries, now, op, nHttp>>
     ELSE /\ pc' = [pc EXCEPT ![p] = "done"]
          /\ res' = [res EXCEPT ![p] = postRejection(error)]
          /\ UNCHANGED <<token, inflightRequest, acq, deliveries, now, op,
                         awaiting, tok, retry, nGet, nInval, nHttp, inval>>
  /\ UNCHANGED <<quoteVars, pureVars>>

\* invalidateToken(), called from outside post().
InvalidateToken ==
  /\ token' = invalidatedToken
  /\ inval' = TRUE
  /\ UNCHANGED <<inflightRequest, acq, deliveries, now, pc, op, awaiting,
                 tok, retry, res, nGet, nInval, nHttp, firstErr>>
  /\ UNCHANGED <<quoteVars, pureVars>>

\* hasValidToken(), called from outside: it returns its answer.
HasValidToken ==
  /\ arg' = [fn |-> "hasValidToken", x |-> 0]
  /\ ret' = [NoRes EXCEPT !.st = IF hasValidToken THEN "true" ELSE "false"]
  /\ UNCHANGED <<coreVars, quoteVars>>

\* Time passes.
Tick ==
  /\ now + TickMs <= MaxTicks * TickMs
  /\ now' = now + TickMs
  /\ UNCHANGED <<token, inflightRequest, acq, deliveries, pc, op, awaiting,
                 tok, retry, res, nGet, nInval, nHttp, firstErr, inval>>
  /\ UNCHANGED <<quoteVars, pureVars>>

\* ------------------------------------------- CarrierRegistry, getQuotes

\* CarrierRegistry.has(carrierId)
has(carrierId) == \E i \in DOMAIN registry : registry[i].carrierId = carrierId

\* register(provider) that lets the later provider take the carrier id
register_overwrite(provider) ==
  IF has(provider.carrierId)
  THEN [i \in DOMAIN registry |->
          IF registry[i].carrierId = provider.carrierId THEN provider
          ELSE registry[i]]
  ELSE Append(registry, provider)

\* CarrierRegistry.register(provider): a second provider of a registered
\* carrier id is refused with CONFIGURATION_ERROR.
register(provider) ==
  IF has(provider.carrierId) THEN registry ELSE Append(registry, provider)

Register(provider) ==
  /\ UNCHANGED pureVars
  /\ qpc /= "fanout"
  /\ registry' = register(provider)
  /\ UNCHANGED <<qpc, request, carriers, results, calls, order, qres>>
  /\ UNCHANGED coreVars

RECURSIVE selectRate(_)
\* CarrierRegistry.getByOperation('rate').map(c => c.carrierId): the ids of
\* the providers that support rating, in registration order.
selectRate(providers) ==
  IF providers = <<>> THEN <<>>
  ELSE IF "rate" \in Head(providers).supportedOperations
       THEN <<Head(providers).carrierId>> \o selectRate(Tail(providers))
       ELSE selectRate(Tail(providers))

getByOperation == selectRate(registry)

\* RateRequestSchema.parse(request) without the upper bound on packages
schemaValid_noUpper(req) == req.packages >= 1

\* RateRequestSchema.parse(request), as far as the package count goes.
schemaValid(req) == req.packages >= 1 /\ req.packages <= 50

\* resolveCarriers() that asks every rating provider whatever was requested
resolveCarriers_allRating(requestedCarriers) == getByOperation

\* resolveCarriers(request.carriers)
resolveCarriers(requestedCarriers) ==
  IF Len(requestedCarriers) > 0 THEN requestedCarriers ELSE getByOperation

\* The lookup failure without the carrier id
carrierUnavailable_untagged(carrierId) ==
  CarrierError("CARRIER_UNAVAILABLE", "none", 0, FALSE, -1)

\* CarrierRegistry.get(carrierId) of an unregistered carrier throws.
carrierUnavailable(carrierId) ==
  CarrierError("CARRIER_UNAVAILABLE", carrierId, 0, FALSE, -1)

\* The task of one carrier right after the fan-out: rejected when the
\* registry lookup threw, else waiting for provider.getRates(request).
taskAtFanout(carrierId) ==
  IF has(carrierId) THEN PendingResult
  ELSE RejectedResult(carrierUnavailable(carrierId))

RECURSIVE invoked_untilFailure(_)
\* The fan-out, given up at the first carrier whose lookup threw
invoked_untilFailure(cs) ==
  IF cs = <<>> THEN <<>>
  ELSE IF has(Head(cs)) THEN <<Head(cs)>> \o invoked_untilFailure(Tail(cs))
       ELSE <<>>

RECURSIVE invoked(_)
\* The carriers whose provider.getRates() the fan-out called, in order.
invoked(cs) ==
  IF cs = <<>> THEN <<>>
  ELSE IF has(Head(cs)) THEN <<Head(cs)>> \o invoked(Tail(cs))
       ELSE invoked(Tail(cs))

InSeq(x, sq) == \E i \in DOMAIN sq : sq[i] = x

\* getQuotes(request) up to its await: validateRequest, resolveCarriers and
\* the map over the carriers, whose callbacks run one after the other up to
\* their first suspension.  The UPS provider's getRates() is run by caller 1.
GetQuotes(req) ==
  /\ UNCHANGED pureVars
  /\ qpc /= "fanout"
  /\ pc[1] \in {"idle", "done"}
  /\ request' = req
  /\ UNCHANGED registry
  /\ IF ~schemaValid(req)
     THEN /\ qpc' = "done"
          /\ qres' = QuotesRejected(validationError)
          /\ carriers' = <<>>
          /\ results' = <<>>
          /\ calls' = <<>>
          /\ order' = <<>>
          /\ UNCHANGED coreVars
     ELSE LET cs == resolveCarriers(req.carriers)
          IN /\ qpc' = "fanout"
             /\ qres' = NoQuotesResult
             /\ carriers' = cs
             /\ results' = [i \in DOMAIN cs |-> taskAtFanout(cs[i])]
             /\ calls' = invoked(cs)
             /\ order' = SelectSeq([i \in DOMAIN cs |-> i],
                                   LAMBDA i : ~has(cs[i]))
             /\ IF InSeq("UPS", invoked(cs))
                THEN StartCall(1, "rates")
                ELSE UNCHANGED coreVars

\* The UPS task has settled (caller 1 is done) and is not in ord yet.
upsJustSettled(ord) ==
  {i \in DOMAIN results :
     /\ carriers[i] = "UPS" /\ results[i].status = "pending"
     /\ pc[1] = "done" /\ ~InSeq(i, ord)}

\* ord, after the UPS task if that has settled meanwhile.
withUps(ord) ==
  IF upsJustSettled(ord) = {} THEN ord
  ELSE Append(ord, CHOOSE i \in upsJustSettled(ord) : TRUE)

\* A provider other than UPS answers getRates().
ProviderSettle(i, outcome) ==
  /\ UNCHANGED pureVars
  /\ qpc = "fanout"
  /\ i \in DOMAIN results
  /\ carriers[i] /= "UPS"
  /\ results[i].status = "pending"
  /\ results' = [results EXCEPT ![i] = outcome]
  /\ order' = Append(withUps(order), i)
  /\ UNCHANGED <<registry, qpc, request, carriers, calls, qres>>
  /\ UNCHANGED coreVars

\* The settled result of task i; the UPS task settles as caller 1 does.
settledResult(i) ==
  IF results[i].status /= "pending" THEN results[i]
  ELSE IF carriers[i] = "UPS" /\ pc[1] = "done"
       THEN IF res[1].st = "resolved" THEN FulfilledResult(res[1].quotes)
            ELSE RejectedResult(res[1].err)
       ELSE PendingResult

RECURSIVE collectQuotes(_)
\* allQuotes: the values of the fulfilled results, in carrier order.
collectQuotes(rs) ==
  IF rs = <<>> THEN <<>>
  ELSE IF Head(rs).status = "fulfilled"
       THEN Head(rs).value \o collectQuotes(Tail(rs))
       ELSE collectQuotes(Tail(rs))

\* Every rejection reason replaced by an UNKNOWN error
coerce_always(reason, carrierId) ==
  CarrierError("UNKNOWN", carrierId, 0, FALSE, -1)

\* A rejection reason that is not a CarrierError becomes an UNKNOWN one.
coerce(reason, carrierId) ==
  IF isCarrierError(reason) THEN reason
  ELSE CarrierError("UNKNOWN", carrierId, 0, FALSE, -1)

RECURSIVE collectErrors(_, _)
\* errors: the coerced reasons of the rejected results, in carrier order.
collectErrors(rs, cs) ==
  IF rs = <<>> THEN <<>>
  ELSE IF Head(rs).status = "rejected"
       THEN <<coerce(Head(rs).reason, Head(cs))>>
              \o collectErrors(Tail(rs), Tail(cs))
       ELSE collectErrors(Tail(rs), Tail(cs))

\* getQuotes(), steps 4 and 5, throwing as soon as one carrier failed
quotesOutcome_anyError(rs, cs) ==
  LET allQuotes == collectQuotes(rs)
      errors == collectErrors(rs, cs)
  IN IF Len(errors) > 0
     THEN QuotesRejected(errors[1])
     ELSE QuotesResolved(sortByAmount(allQuotes), cs)

\* getQuotes(), steps 4 and 5, throwing the last collected error
quotesOutcome_lastError(rs, cs) ==
  LET allQuotes == collectQuotes(rs)
      errors == collectErrors(rs, cs)
  IN IF Len(allQuotes) = 0 /\ Len(errors) > 0
     THEN QuotesRejected(errors[Len(errors)])
     ELSE QuotesResolved(sortByAmount(allQuotes), cs)

\* getQuotes(), steps 4 and 5, throwing only when every carrier failed
quotesOutcome_allFailed(rs, cs) ==
  LET allQuotes == collectQuotes(rs)
      errors == collectErrors(rs, cs)
  IN IF Len(errors) = Len(rs) /\ Len(errors) > 0
     THEN QuotesRejected(errors[1])
     ELSE QuotesResolved(sortByAmount(allQuotes), cs)

\* getQuotes(), steps 4 and 5, on the settled results.
quotesOutcome(rs, cs) ==
  LET allQuotes == collectQuotes(rs)
      errors == collectErrors(rs, cs)
  IN IF Len(allQuotes) = 0 /\ Len(errors) > 0
     THEN QuotesRejected(errors[1])
     ELSE QuotesResolved(sortByAmount(allQuotes), cs)

\* Promise.allSettled() has resolved: getQuotes() collects and returns.
Collect ==
  /\ UNCHANGED pureVars
  /\ qpc = "fanout"
  /\ \A i \in DOMAIN results : settledResult(i).status /= "pending"
  /\ qpc' = "done"
  /\ results' = [i \in DOMAIN results |-> settledResult(i)]
  /\ qres' = quotesOutcome([i \in DOMAIN results |-> settledResult(i)],
                           carriers)
  /\ order' = withUps(order)
  /\ UNCHANGED <<registry, request, carriers, calls>>
  /\ UNCHANGED coreVars

vars == <<coreVars, quoteVars, pureVars>>

\* Providers installed in the registry.
Providers == {Provider("UPS", {"rate"}), Provider("FEDEX", {"track"})}

CarrierLists ==
  {<<>>, <<"UPS">>, <<"FEDEX", "UPS">>, <<"UPS", "FEDEX">>, <<"DHL", "UPS">>,
   <<"DHL">>}

Requests ==
  {[packages |-> n, carriers |-> cs] : n \in {0, 1, 51}, cs \in CarrierLists}

\* What a provider other than UPS may answer.
ProviderOutcomes(c) ==
  {FulfilledResult(<<>>),
   FulfilledResult(<<RateQuote(c, "X", 28), RateQuote(c, "Y", 15),
                     RateQuote(c, "Z", 15)>>),
   RejectedResult(networkError(c)),
   RejectedResult(PlainError)}

\* Concurrent callers of getAccessToken() and post() on one auth manager.
Next ==
  \/ \E p \in Procs, o \in {"get", "post"} : Call(p, o)
  \/ \E a \in 1..MaxAcq, outcome \in CoreTokenOutcomes : Settle(a, outcome)
  \/ Deliver
  \/ \E p \in Procs : Send(p)
  \/ \E p \in Procs, body \in CoreBodies : HttpSuccess(p, body)
  \/ \E p \in Procs, error \in CoreErrors : HttpFailure(p, error)
  \/ InvalidateToken
  \/ Tick

\* One client that awaits each of its calls, of getQuotes() or of the UPS
\* operations directly, over the full alphabets of answers.  The getQuotes()
\* variables describe the client's current call: a direct call starts afresh.
DirectCall(o) ==
  /\ UNCHANGED pureVars
  /\ qpc /= "fanout"
  /\ StartCall(1, o)
  /\ qpc' = "idle"
  /\ request' = NoRequest
  /\ carriers' = <<>>
  /\ results' = <<>>
  /\ calls' = <<>>
  /\ order' = <<>>
  /\ qres' = NoQuotesResult
  /\ UNCHANGED registry

NextQuotes ==
  \/ \E provider \in Providers : Register(provider)
  \/ \E req \in Requests : GetQuotes(req)
  \/ \E i \in DOMAIN carriers :
       \E outcome \in ProviderOutcomes(carriers[i]) :
         ProviderSettle(i, outcome)
  \/ Collect
  \/ \E o \in {"get", "post"} : DirectCall(o)
  \/ \E a \in 1..MaxAcq, outcome \in TokenOutcomes : Settle(a, outcome)
  \/ Deliver
  \/ Send(1)
  \/ \E body \in Bodies : HttpSuccess(1, body)
  \/ \E error \in RawErrors : HttpFailure(1, error)
  \/ InvalidateToken

SpecQuotes == Init /\ [][NextQuotes]_vars

Spec == Init /\ [][Next]_vars

\* One auth manager used from outside the HTTP client: getAccessToken() by
\* either caller, invalidateToken() and hasValidToken(), over every answer
\* of the token endpoint.
NextAuth ==
  \/ \E p \in Procs : Call(p, "get")
  \/ \E a \in 1..MaxAcq, outcome \in TokenOutcomes : Settle(a, outcome)
  \/ Deliver
  \/ InvalidateToken
  \/ HasValidToken
  \/ Tick

SpecAuth == Init /\ [][NextAuth]_vars

\* getAccessToken() and invalidateToken() called from outside, the exchange
\* answering as in the concurrent specification.
NextAuthLive ==
  \/ \E p \in Procs : Call(p, "get")
  \/ \E a \in 1..MaxAcq, outcome \in CoreTokenOutcomes : Settle(a, outcome)
  \/ Deliver
  \/ InvalidateToken
  \/ Tick

\* Every credential exchange is answered (the HTTP client settles every
\* request: axios has a timeout), and the event loop runs the reaction jobs
\* of settled promises.
Fairness ==
  /\ WF_vars(\E a \in 1..MaxAcq, outcome \in CoreTokenOutcomes :
               Settle(a, outcome))
  /\ WF_vars(Deliver)

\* The auth manager with exchanges that settle.
SpecAuthLive == Init /\ [][NextAuthLive]_vars /\ Fairness

\* ------------------------------------------- the functions on their own

\* The longest RatedShipment array of a response.
MaxShipments == 3

\* Rated shipments of a response: four services, two of them at one price,
\* and a shipment without its Service block.
PureShipments ==
  {RatedShipment("01", 28), RatedShipment("03", 15), RatedShipment("12", 45),
   RatedShipment("02", 15), NoShipment}

\* Response bodies: no wrapper, no RatedShipment field, one object, an array
\* of up to MaxShipments shipments (the empty one too).
PureBodies ==
  {Body(FALSE, FALSE, FALSE, NoShipment, <<>>),
   Body(TRUE, FALSE, FALSE, NoShipment, <<>>)}
    \cup {Body(TRUE, TRUE, FALSE, sh, <<>>) : sh \in PureShipments}
    \cup {Body(TRUE, TRUE, TRUE, NoShipment, a) :
            a \in UNION {[1..n -> PureShipments] : n \in 0..MaxShipments}}

\* What a request may throw: an AxiosError without a response, one with a
\* response (any code, status and retry-after header), something that is
\* no AxiosError, a CarrierError.
PureErrors ==
  {AxiosError(c, FALSE, 0, -1) :
     c \in {"", "ECONNABORTED", "ETIMEDOUT", "ECONNRESET"}}
    \cup {AxiosError(c, TRUE, st, ra) :
            c \in {"", "ECONNABORTED", "ETIMEDOUT", "ECONNRESET"},
            st \in {400, 401, 403, 404, 429, 500, 503},
            ra \in {-1, 0, 2}}
    \cup {PlainError, validationError, networkError("UPS"),
          authError("UPS", 401)}

\* Requests given to getRates(): with each service level, and without one.
RateRequests ==
  {[packages |-> 1, carriers |-> <<>>, serviceLevel |-> lv] :
     lv \in ServiceLevels \cup {Undefined}}

\* The longest ItemizedCharges array of a rated shipment.
MaxCharges == 3

\* Itemized charges: a fuel surcharge, a line of amount 0.00, a line in
\* another currency without description, a negative line, a line whose
\* value is no number.
PureCharges ==
  {ItemizedCharge("375", "Fuel Surcharge", "USD", "1.50"),
   ItemizedCharge("270", "Residential", "USD", "0.00"),
   ItemizedCharge("400", Undefined, "CAD", "2.5"),
   ItemizedCharge("110", "Adjustment", "USD", "-0.50"),
   ItemizedCharge("120", "Other", "USD", "N/A")}

\* The ItemizedCharges field: absent, one object, an array of up to
\* MaxCharges lines.
PureItemized ==
  {NoItemized}
    \cup {Itemized(TRUE, FALSE, c, <<>>) : c \in PureCharges}
    \cup {Itemized(TRUE, TRUE, NoItemized.obj, a) :
            a \in UNION {[1..n -> PureCharges] : n \in 0..MaxCharges}}

\* Rated shipments given to mapFromUpsRatedShipment(): each service code of
\* the table, and one that is not in it.
PureRated ==
  {[RatedShipment(c, 15) EXCEPT !.ItemizedCharges = it] :
     c \in DOMAIN UPS_SERVICE_CODE_TO_LEVEL \cup {"99"},
     it \in {NoItemized}}
    \cup {[RatedShipment("03", 15) EXCEPT !.ItemizedCharges = it] :
            it \in PureItemized}

\* The value returned by a function that returns a CarrierError or nothing.
Returned(e) == [NoRes EXCEPT !.st = "returned", !.err = e]

\* One function is applied, once, to an argument of these sets.
InitPure ==
  /\ Constructed
  /\ registry \in {<<>>, <<Provider("UPS", {"rate"})>>}
  /\ ret = NoRes
  /\ \/ \E body \in PureBodies : arg = [fn |-> "parseResponse", x |-> body]
     \/ \E error \in PureErrors : arg = [fn |-> "classifyError", x |-> error]
     \/ \E outcome \in TokenOutcomes \cup PureErrors :
          arg = [fn |-> "acquireToken", x |-> outcome]
     \/ \E req \in Requests : arg = [fn |-> "validateRequest", x |-> req]
     \/ \E c \in {"UPS", "FEDEX"} : arg = [fn |-> "get", x |-> c]
     \/ arg = [fn |-> "register", x |-> NoProvider]
     \/ \E reason \in {PlainError, networkError("FEDEX")} :
          arg = [fn |-> "coerce", x |-> reason]
     \/ \E req \in RateRequests : arg = [fn |-> "getRates", x |-> req]
     \/ \E rated \in PureRated :
          arg = [fn |-> "mapFromUpsRatedShipment", x |-> rated]

\* UpsRatingOperation.parseResponse(response)
ParseResponse ==
  /\ arg.fn = "parseResponse" /\ ret = NoRes
  /\ ret' = parseResponse(arg.x)
  /\ UNCHANGED <<coreVars, quoteVars, arg>>

\* UpsHttpClient.classifyError(error)
ClassifyError ==
  /\ arg.fn = "classifyError" /\ ret = NoRes
  /\ ret' = Returned(classifyError(arg.x))
  /\ UNCHANGED <<coreVars, quoteVars, arg>>

\* UpsAuthManager.acquireToken(), the exchange answering arg.x
AcquireToken ==
  /\ arg.fn = "acquireToken" /\ ret = NoRes
  /\ LET v == acquireToken(arg.x, now)
     IN ret' = IF v.ok THEN ResolvedToken(v.data.accessToken)
               ELSE Rejected(v.err)
  /\ UNCHANGED <<coreVars, quoteVars, arg>>

\* RateShoppingService.validateRequest(request)
ValidateRequest ==
  /\ arg.fn = "validateRequest" /\ ret = NoRes
  /\ ret' = IF schemaValid(arg.x) THEN Returned(NoErr)
            ELSE Rejected(validationError)
  /\ UNCHANGED <<coreVars, quoteVars, arg>>

\* CarrierRegistry.get(carrierId)
RegistryGet ==
  /\ arg.fn = "get" /\ ret = NoRes
  /\ ret' = IF has(arg.x) THEN Returned(NoErr)
            ELSE Rejected(carrierUnavailable(arg.x))
  /\ UNCHANGED <<coreVars, quoteVars, arg>>

\* CarrierRegistry.register(provider), one call after the other
RegistryRegister(provider) ==
  /\ arg.fn = "register"
  /\ arg' = [fn |-> "register", x |-> provider]
  /\ ret' = IF has(provider.carrierId) THEN Rejected(configurationError)
            ELSE Returned(NoErr)
  /\ registry' = register(provider)
  /\ UNCHANGED <<qpc, request, carriers, results, calls, order, qres>>
  /\ UNCHANGED coreVars

\* UpsRatingOperation.getRates(request), up to its call of post()
GetRates ==
  /\ arg.fn = "getRates" /\ ret = NoRes
  /\ ret' = [NoRes EXCEPT !.st = "posted", !.value = ratesCall(arg.x)]
  /\ UNCHANGED <<coreVars, quoteVars, arg>>

\* mapFromUpsRatedShipment(rated)
MapFromUpsRatedShipment ==
  /\ arg.fn = "mapFromUpsRatedShipment" /\ ret = NoRes
  /\ ret' = [NoRes EXCEPT !.st = "returned",
                          !.value = mapFromUpsRatedShipment(arg.x)]
  /\ UNCHANGED <<coreVars, quoteVars, arg>>

\* getQuotes(), lines 53-62: the error pushed for a rejected FEDEX task
Coerce ==
  /\ arg.fn = "coerce" /\ ret = NoRes
  /\ ret' = Returned(coerce(arg.x, "FEDEX"))
  /\ UNCHANGED <<coreVars, quoteVars, arg>>

NextPure ==
  \/ ParseResponse
  \/ ClassifyError
  \/ AcquireToken
  \/ ValidateRequest
  \/ RegistryGet
  \/ \E provider \in Providers \cup {Provider("UPS", {"track"})} :
       RegistryRegister(provider)
  \/ Coerce
  \/ GetRates
  \/ MapFromUpsRatedShipment

SpecPure == InitPure /\ [][NextPure]_vars

\* ------------------------------------------------------------ properties

\* The callers that await acquisition a.
Awaiters(a) == {p \in Procs : pc[p] = "awaitToken" /\ awaiting[p] = a}

\* The acquisitions whose credential exchange is outstanding.
PendingAcqs == {a \in DOMAIN acq : acq[a].st = "pending"}

\* This step resumes the awaiters of the oldest settled acquisition.
DeliverStep == deliveries /= <<>> /\ deliveries' = Tail(deliveries)

\* C1 (single-flight): the getAccessToken() calls that wait while a
\* credential exchange is outstanding all wait for that one exchange, so the
\* N calls that started before it settled caused one POST; and the calls
\* served by one acquisition resolve to the same access-token string.
C1_SingleFlight ==
  /\ \A p, q \in Procs :
       ( /\ pc[p] = "awaitToken" /\ acq[awaiting[p]].st = "pending"
         /\ pc[q] = "awaitToken" /\ acq[awaiting[q]].st = "pending" )
       => awaiting[p] = awaiting[q]
  /\ \A p, q \in Procs :
       ( /\ awaiting[p] /= 0 /\ awaiting[p] = awaiting[q]
         /\ tok[p] /= "none" /\ tok[q] /= "none" )
       => tok[p] = tok[q]

\* Two calls joined the only credential exchange issued and resolved to its
\* token.
C1_Witness ==
  /\ Len(acq) = 1
  /\ \E p, q \in Procs :
       /\ p /= q
       /\ awaiting[p] = 1 /\ awaiting[q] = 1
       /\ op[p] = "get" /\ op[q] = "get"
       /\ res[p].st = "resolved" /\ res[q].st = "resolved"
       /\ res[p].token = res[q].token

\* C2 (token caching, as claimed): while a valid token is cached, a step
\* that does not invalidate it neither replaces the credential string nor
\* issues a credential exchange.
C2_CachedCredentialStable ==
  [][ hasValidToken =>
        \/ token' = NoToken
        \/ /\ token'.accessToken = token.accessToken
           /\ Len(acq') = Len(acq) ]_vars

\* C3 (401 then success): a post() whose first attempt was rejected with 401
\* and that resolved returns a body after exactly one invalidateToken(), two
\* getAccessToken() calls and two HTTP attempts.
C3_RetryOnceThenSuccess ==
  \A p \in Procs :
    ( /\ op[p] = "post" /\ pc[p] = "done"
      /\ isAuthRejection(firstErr[p]) /\ res[p].st = "resolved" )
    => /\ nInval[p] = 1
       /\ nGet[p] = 2
       /\ nHttp[p] = 2
       /\ res[p].body \in CoreBodies

C3_Witness ==
  \E p \in Procs :
    /\ op[p] = "post" /\ pc[p] = "done"
    /\ isAuthRejection(firstErr[p]) /\ res[p].st = "resolved"
    /\ nHttp[p] = 2

\* C4 (no third attempt): a post() never issues more than two HTTP attempts
\* nor more than one invalidateToken(), and one whose second attempt is
\* rejected with 401 raises a non-retryable AUTH_FAILED CarrierError.
C4_AtMostTwoAttempts ==
  \A p \in Procs :
    /\ nHttp[p] <= 2
    /\ nInval[p] <= 1
    /\ ( /\ op[p] = "post" /\ pc[p] = "done" /\ nHttp[p] = 2
         /\ res[p].st = "rejected" /\ res[p].err.httpStatus = 401 )
       => /\ isCarrierError(res[p].err)
          /\ res[p].err.code = "AUTH_FAILED"
          /\ ~res[p].err.retryable

C4_Witness ==
  \E p \in Procs :
    /\ op[p] = "post" /\ pc[p] = "done" /\ nHttp[p] = 2 /\ nInval[p] = 1
    /\ res[p].st = "rejected" /\ res[p].err.code = "AUTH_FAILED"
    /\ res[p].err.httpStatus = 401

\* C5 (as claimed): after invalidateToken(), from whatever state, the next
\* getAccessToken() issues exactly one new credential exchange.
C5_InvalidationAlwaysRefreshes ==
  [][ /\ (inval /\ ~inval') => Len(acq') = Len(acq) + 1
      /\ \A p \in Procs :
           nInval'[p] = nInval[p] + 1 => Len(acq') = Len(acq) + 1 ]_vars

\* C6 (one exchange outstanding): at most one credential exchange is
\* outstanding, it is the one in the in-flight slot, and every caller that
\* waits for an outstanding exchange waits for the one in the slot.
C6_OneOutstandingExchange ==
  /\ Cardinality(PendingAcqs) <= 1
  /\ \A a \in PendingAcqs : inflightRequest = a
  /\ \A p \in Procs :
       (pc[p] = "awaitToken" /\ awaiting[p] \in PendingAcqs)
       => awaiting[p] = inflightRequest

\* Two callers wait for the outstanding exchange, which is not the first one.
C6_Witness ==
  \E a \in PendingAcqs : a > 1 /\ Cardinality(Awaiters(a)) = 2

\* C7 (only CarrierErrors escape): every rejection of getAccessToken(),
\* post(), getRates() and getQuotes(), and every failed acquisition the
\* awaiters share, is a CarrierError whose code is one of the taxonomy's.
C7_OnlyCarrierErrors ==
  /\ \A p \in Procs :
       res[p].st = "rejected"
       => isCarrierError(res[p].err) /\ res[p].err.code \in CarrierErrorCode
  /\ qres.st = "rejected"
     => isCarrierError(qres.err) /\ qres.err.code \in CarrierErrorCode
  /\ \A a \in DOMAIN acq :
       (acq[a].st = "settled" /\ ~acq[a].val.ok)
       => /\ isCarrierError(acq[a].val.err)
          /\ acq[a].val.err.code \in CarrierErrorCode

\* getQuotes() rejected with the classified error of the UPS provider's
\* rating call, the only carrier asked.
C7_Witness ==
  /\ qpc = "done" /\ qres.st = "rejected"
  /\ carriers = <<"UPS">>
  /\ op[1] = "rates" /\ res[1].st = "rejected" /\ nHttp[1] = 1
  /\ qres.err = res[1].err
  /\ qres.err.code = "RATE_LIMITED"

\* C8 (a failure is not cached, as claimed): when the awaiters of a failed
\* acquisition resume, each rejects with the acquisition's CarrierError, the
\* stored token is left as it is, and hasValidToken() is false afterwards.
C8_FailureNotCached ==
  [][ (DeliverStep /\ ~acq[Head(deliveries)].val.ok)
      => /\ token' = token
         /\ ~hasValidToken'
         /\ isCarrierError(acq[Head(deliveries)].val.err)
         /\ \A p \in Awaiters(Head(deliveries)) :
              /\ pc'[p] = "done"
              /\ res'[p].st = "rejected"
              /\ res'[p].err = acq[Head(deliveries)].val.err ]_vars

\* C9 (slot cleared before the awaiters resume): the step that settles an
\* acquisition empties the in-flight slot while the acquisition's awaiters
\* are still suspended; when they resume the slot does not hold their
\* acquisition; and a getAccessToken() call that starts to wait always waits
\* for an exchange that is still outstanding, never for a settled one.
C9_SlotClearedOnSettle ==
  [][ /\ \A a \in DOMAIN acq :
           (acq[a].st = "pending" /\ acq'[a].st = "settled")
           => /\ inflightRequest' = NoInflight
              /\ \A p \in Awaiters(a) : pc'[p] = "awaitToken"
      /\ DeliverStep => inflightRequest /= Head(deliveries)
      /\ \A p \in Procs :
           (pc[p] /= "awaitToken" /\ pc'[p] = "awaitToken")
           => acq'[awaiting'[p]].st = "pending" ]_vars

\* A caller rejected by a failed acquisition, and a later caller waiting on
\* a fresh outstanding exchange.
C9_Witness ==
  \E p, q \in Procs :
    /\ op[p] = "get" /\ pc[p] = "done" /\ res[p].st = "rejected"
    /\ pc[q] = "awaitToken" /\ awaiting[q] \in PendingAcqs
    /\ awaiting[q] > awaiting[p]

\* C10 (other failures are not retried): when the first HTTP attempt of a
\* post() fails with anything but a 401 response, post() rejects at once
\* with the classified error, having made one HTTP attempt and no
\* invalidateToken() call, and the auth manager is left as it was.
C10_NoRetryOnOtherFailures ==
  [][ \A p \in Procs :
        ( /\ pc[p] = "awaitHttp" /\ firstErr[p] = NoRaw
          /\ firstErr'[p] /= NoRaw /\ ~isAuthRejection(firstErr'[p]) )
        => /\ pc'[p] = "done"
           /\ res'[p] = Rejected(classifyError(firstErr'[p]))
           /\ nHttp'[p] = 1
           /\ nInval'[p] = 0
           /\ nGet'[p] = 1
           /\ token' = token
           /\ inflightRequest' = inflightRequest
           /\ acq' = acq ]_vars

\* A post() rejected with a retryable 5xx error after one attempt, the
\* cached token still valid.
C10_Witness ==
  \E p \in Procs :
    /\ op[p] = "post" /\ pc[p] = "done" /\ res[p].st = "rejected"
    /\ firstErr[p] = AxiosError("", TRUE, 500, -1)
    /\ res[p].err.code = "CARRIER_API_ERROR" /\ res[p].err.retryable
    /\ nHttp[p] = 1 /\ nInval[p] = 0
    /\ hasValidToken

\* C11 (the retry uses a fresh token): the getAccessToken() call that
\* follows the invalidateToken() of a 401 is never served from the cache; it
\* waits for a credential exchange that is still outstanding at the
\* invalidation, and the retry attempt is sent with the access token which
\* that exchange returned.
C11_RetryUsesFreshToken ==
  [][ \A p \in Procs :
        /\ nInval'[p] = nInval[p] + 1
           => /\ token' = NoToken
              /\ pc'[p] = "awaitToken"
              /\ tok'[p] = "none"
              /\ acq'[awaiting'[p]].st = "pending"
        /\ (retry[p] /\ pc[p] = "awaitToken" /\ pc'[p] = "haveToken")
           => /\ DeliverStep
              /\ awaiting[p] = Head(deliveries)
              /\ tok'[p] = acq[Head(deliveries)].val.data.accessToken
        /\ (retry[p] /\ pc[p] = "haveToken" /\ pc'[p] = "awaitHttp")
           => /\ tok'[p] = tok[p]
              /\ awaiting[p] /= 0
              /\ nHttp'[p] = 2 ]_vars

\* Two concurrent post() calls, both rejected with 401, have sent their
\* retries with the token of the one exchange they shared.
C11_Witness ==
  \E p, q \in Procs :
    /\ p /= q
    /\ retry[p] /\ retry[q]
    /\ pc[p] = "awaitHttp" /\ pc[q] = "awaitHttp"
    /\ nHttp[p] = 2 /\ nHttp[q] = 2
    /\ awaiting[p] = awaiting[q] /\ awaiting[p] > 1
    /\ tok[p] = "t2" /\ tok[q] = "t2"

\* The tasks that failed, and those that succeeded.
FailedTasks == {i \in DOMAIN results : results[i].status = "rejected"}
FulfilledTasks == {i \in DOMAIN results : results[i].status = "fulfilled"}

\* The positions <<i, k>> of the quotes that the fulfilled tasks returned.
FulfilledQuotes ==
  UNION {{<<i, k>> : k \in DOMAIN results[i].value} : i \in FulfilledTasks}

\* The sequence sq holds exactly the quotes of the fulfilled tasks, each as
\* often as they returned it.
ExactlyFulfilledQuotes(sq) ==
  /\ Len(sq) = Cardinality(FulfilledQuotes)
  /\ \A ik \in FulfilledQuotes :
       LET x == results[ik[1]].value[ik[2]]
       IN Cardinality({k \in DOMAIN sq : sq[k] = x})
            = Cardinality({jl \in FulfilledQuotes :
                             results[jl[1]].value[jl[2]] = x})

\* C12 (partial failure): when at least one carrier's getRates() resolved
\* with a quote, getQuotes() resolves, whatever the other carriers rejected
\* with, and returns exactly the quotes of the carriers that resolved.
C12_PartialFailureResolves ==
  (qpc = "done" /\ FulfilledQuotes /= {})
  => /\ qres.st = "resolved"
     /\ ExactlyFulfilledQuotes(qres.quotes)

\* FEDEX rejected with a raw error, UPS answered with quotes: getQuotes()
\* resolved with the UPS quotes.
C12_Witness ==
  /\ qpc = "done" /\ carriers = <<"FEDEX", "UPS">>
  /\ results[1].status = "rejected" /\ ~isCarrierError(results[1].reason)
  /\ results[2].status = "fulfilled" /\ Len(results[2].value) = 2
  /\ qres.st = "resolved" /\ Len(qres.quotes) = 2

\* C13 (total failure): when every carrier task of a getQuotes() call
\* rejected, the call rejects with the error of the first carrier of the
\* resolved list, whatever the order in which the tasks settled: that very
\* CarrierError, code and all, or UNKNOWN for that carrier when the reason
\* is not a CarrierError.
C13_TotalFailureRaisesFirst ==
  (qpc = "done" /\ results /= <<>> /\ FailedTasks = DOMAIN results)
  => /\ qres.st = "rejected"
     /\ IF isCarrierError(results[1].reason)
        THEN qres.err = results[1].reason
        ELSE /\ qres.err.code = "UNKNOWN"
             /\ qres.err.carrier = carriers[1]

\* FEDEX, first in the list, rejected with NETWORK_ERROR after UPS, second,
\* had rejected with another error: getQuotes() raised the FEDEX error.
C13_Witness ==
  /\ qpc = "done" /\ carriers = <<"FEDEX", "UPS">>
  /\ order = <<2, 1>>
  /\ FailedTasks = {1, 2}
  /\ results[1].reason = networkError("FEDEX")
  /\ results[2].reason.code = "AUTH_FAILED"
  /\ qres.st = "rejected" /\ qres.err = networkError("FEDEX")

\* C14 (as claimed): getQuotes() throws a carrier's error only if every
\* queried carrier failed; when the getRates of at least one carrier
\* resolved, with any number of quotes, getQuotes() resolves.
C14_ThrowsOnlyIfAllFailed ==
  (qpc = "done" /\ FulfilledTasks /= {}) => qres.st = "resolved"

\* C15 (validation gate): a getQuotes() call whose request fails schema
\* validation, with no package or with more than 50, rejects with a
\* VALIDATION_ERROR CarrierError in the same step, with no carrier resolved,
\* no provider getRates() called, no credential exchange started and no
\* request sent.
C15_ValidationGate ==
  [][ ( /\ qpc /= "fanout" /\ qpc' = "done"
        /\ (request'.packages < 1 \/ request'.packages > 50) )
      => /\ qres'.st = "rejected"
         /\ isCarrierError(qres'.err)
         /\ qres'.err.code = "VALIDATION_ERROR"
         /\ carriers' = <<>> /\ results' = <<>> /\ calls' = <<>>
         /\ acq' = acq /\ nHttp' = nHttp /\ nGet' = nGet /\ pc' = pc ]_vars

\* A request for UPS with 51 packages, UPS registered: the call is over,
\* rejected with VALIDATION_ERROR, and nothing was called or sent.
C15_Witness ==
  /\ qpc = "done" /\ has("UPS")
  /\ request.packages = 51 /\ request.carriers = <<"UPS">>
  /\ qres.st = "rejected" /\ qres.err.code = "VALIDATION_ERROR"
  /\ calls = <<>> /\ acq = <<>> /\ nHttp[1] = 0

\* C16 (no carrier blocks another): a valid getQuotes() call has one task
\* per resolved carrier; getRates() is called on every carrier that has a
\* provider, whatever happened to the carriers before it, and a carrier
\* without one rejects with CARRIER_UNAVAILABLE; the call ends only when
\* every task has settled, and the quotes of every fulfilled task are then
\* in the result, whichever other tasks rejected.
C16_NoCarrierBlocksAnother ==
  /\ qpc \in {"fanout", "done"} => Len(results) = Len(carriers)
  /\ qpc = "fanout"
     => \A i \in DOMAIN carriers :
          IF has(carriers[i])
          THEN InSeq(carriers[i], calls)
          ELSE /\ results[i].status = "rejected"
               /\ results[i].reason.code = "CARRIER_UNAVAILABLE"
  /\ qpc = "done"
     => /\ \A i \in DOMAIN results : results[i].status /= "pending"
        /\ \A i \in FulfilledTasks : InSeq(carriers[i], calls)
        /\ qres.st = "resolved" => ExactlyFulfilledQuotes(qres.quotes)
        /\ qres.st = "rejected" => FulfilledQuotes = {}

\* DHL has no provider and its task rejected at once; UPS, after it in the
\* list, was still called and awaited, and its two quotes are the result.
C16_Witness ==
  /\ qpc = "done" /\ carriers = <<"DHL", "UPS">>
  /\ order = <<1, 2>> /\ calls = <<"UPS">>
  /\ results[1].status = "rejected"
  /\ results[1].reason.code = "CARRIER_UNAVAILABLE"
  /\ results[2].status = "fulfilled" /\ Len(results[2].value) = 2
  /\ qres.st = "resolved" /\ qres.quotes = results[2].value

\* The quote that task i returned at position k, and where the result has it.
SourceQuote(ik) == results[ik[1]].value[ik[2]]
PosInResult(q) == CHOOSE j \in DOMAIN qres.quotes : qres.quotes[j] = q
Earlier(a, b) == a[1] < b[1] \/ (a[1] = b[1] /\ a[2] < b[2])

\* C17 (deterministic order): the quotes getQuotes() returns are the quotes
\* of the fulfilled tasks in ascending order of amount, quotes of equal
\* amount in the order of their carriers in the resolved list and then in
\* the order their carrier returned them: a sequence fixed by the carriers'
\* answers alone, whatever the order in which the tasks completed.
C17_SortedWhateverCompletionOrder ==
  (qpc = "done" /\ qres.st = "resolved")
  => /\ ExactlyFulfilledQuotes(qres.quotes)
     /\ \A j, k \in DOMAIN qres.quotes :
          j < k => qres.quotes[j].amount <= qres.quotes[k].amount
     /\ \A a, b \in FulfilledQuotes :
          (Earlier(a, b) /\ SourceQuote(a).amount = SourceQuote(b).amount)
          => PosInResult(SourceQuote(a)) < PosInResult(SourceQuote(b))

\* UPS, second in the list, completed before FEDEX: the result still has
\* the FEDEX quotes of 15, in FEDEX's order, before the UPS quote of 15,
\* and the FEDEX quote of 28 before the UPS one.
C17_Witness ==
  /\ qpc = "done" /\ carriers = <<"FEDEX", "UPS">> /\ order = <<2, 1>>
  /\ qres.st = "resolved" /\ Len(qres.quotes) = 5
  /\ [j \in 1..5 |-> qres.quotes[j].carrier]
       = <<"FEDEX", "FEDEX", "UPS", "FEDEX", "UPS">>
  /\ [j \in 1..5 |-> qres.quotes[j].amount] = <<15, 15, 15, 28, 28>>
  /\ qres.quotes[1].serviceCode = "Y" /\ qres.quotes[2].serviceCode = "Z"

\* The quotes mapped from the rated shipments of a body, in the carrier's
\* order.
MappedQuotes(body) ==
  [i \in DOMAIN normalizeShipments(body) |->
     mapFromUpsRatedShipment(normalizeShipments(body)[i])]

\* C18 (sorted quotes): the quotes parseResponse() returns are the mapped
\* rated shipments, each exactly once, in ascending order of amount, quotes
\* of one amount in the order the carrier reported them.
C18_SortedStablePermutation ==
  (arg.fn = "parseResponse" /\ ret.st = "resolved")
  => LET mapped == MappedQuotes(arg.x)
         n == Len(mapped)
     IN /\ Len(ret.quotes) = n
        /\ \A j, k \in 1..n : j < k => ret.quotes[j].amount <= ret.quotes[k].amount
        /\ \E pi \in [1..n -> 1..n] :
             /\ \A i, j \in 1..n : i /= j => pi[i] /= pi[j]
             /\ \A i \in 1..n : ret.quotes[pi[i]] = mapped[i]
             /\ \A i, j \in 1..n :
                  (i < j /\ mapped[i].amount = mapped[j].amount)
                  => pi[i] < pi[j]

\* Shipments priced 28, 15 and 45 came back as quotes priced 15, 28 and 45.
C18_Witness ==
  /\ arg.fn = "parseResponse" /\ arg.x.isArray
  /\ arg.x.arr = <<RatedShipment("01", 28), RatedShipment("03", 15),
                   RatedShipment("12", 45)>>
  /\ ret.st = "resolved"
  /\ ret.quotes = <<mapFromUpsRatedShipment(RatedShipment("03", 15)),
                    mapFromUpsRatedShipment(RatedShipment("01", 28)),
                    mapFromUpsRatedShipment(RatedShipment("12", 45))>>

\* C19 (classification order): classifyError() hands a CarrierError back
\* unchanged and turns anything else into a CarrierError for UPS: an error
\* that is no AxiosError into MALFORMED_RESPONSE; an AxiosError with a
\* timeout code into TIMEOUT, whatever else it carries; else one without a
\* response into NETWORK_ERROR; else status 429 into RATE_LIMITED, with
\* retryAfterMs the retry-after seconds times 1000 when the header is there;
\* else 401 into AUTH_FAILED; else 403 into FORBIDDEN; else any status into
\* CARRIER_API_ERROR with that status.
C19_ClassificationOrder ==
  (arg.fn = "classifyError" /\ ret.st = "returned")
  => LET e == arg.x
         r == ret.err
     IN IF e.type = "CarrierError"
        THEN r = e
        ELSE /\ isCarrierError(r) /\ r.carrier = "UPS"
             /\ IF e.type /= "AxiosError"
                THEN r.code = "MALFORMED_RESPONSE"
                ELSE IF e.code \in {"ECONNABORTED", "ETIMEDOUT"}
                THEN r.code = "TIMEOUT"
                ELSE IF ~e.hasResponse
                THEN r.code = "NETWORK_ERROR"
                ELSE IF e.status = 429
                THEN /\ r.code = "RATE_LIMITED"
                     /\ e.retryAfter /= -1
                        => r.retryAfterMs = e.retryAfter * 1000
                     /\ e.retryAfter = -1 => r.retryAfterMs = -1
                ELSE IF e.status = 401
                THEN r.code = "AUTH_FAILED" /\ r.httpStatus = 401
                ELSE IF e.status = 403
                THEN r.code = "FORBIDDEN" /\ r.httpStatus = 403
                ELSE r.code = "CARRIER_API_ERROR" /\ r.httpStatus = e.status

\* A request that timed out although a 429 response with a retry-after
\* header is attached to the error: classified as TIMEOUT.
C19_Witness ==
  /\ arg.fn = "classifyError"
  /\ arg.x = AxiosError("ECONNABORTED", TRUE, 429, 2)
  /\ ret.st = "returned" /\ ret.err.code = "TIMEOUT"
  /\ ret.err.retryAfterMs = -1

\* C20 (retryable by kind): every CarrierError that a function of the core
\* returns or throws is retryable exactly as its kind says: never for
\* AUTH_FAILED, FORBIDDEN, MALFORMED_RESPONSE, CONFIGURATION_ERROR,
\* VALIDATION_ERROR, CARRIER_UNAVAILABLE and UNKNOWN; always for
\* NETWORK_ERROR, TIMEOUT and RATE_LIMITED; for CARRIER_API_ERROR exactly
\* when the HTTP status is 500 or more.
C20_RetryableByKind ==
  isCarrierError(ret.err)
  => LET e == ret.err
     IN CASE e.code \in {"AUTH_FAILED", "FORBIDDEN", "MALFORMED_RESPONSE",
                         "CONFIGURATION_ERROR", "VALIDATION_ERROR",
                         "CARRIER_UNAVAILABLE", "UNKNOWN"}
               -> ~e.retryable
          [] e.code \in {"NETWORK_ERROR", "TIMEOUT", "RATE_LIMITED"}
               -> e.retryable
          [] e.code = "CARRIER_API_ERROR"
               -> e.retryable <=> e.httpStatus >= 500
          [] OTHER -> FALSE

\* A 503 answer was classified as a retryable CARRIER_API_ERROR.
C20_Witness ==
  /\ arg.fn = "classifyError" /\ arg.x = AxiosError("", TRUE, 503, -1)
  /\ ret.st = "returned" /\ ret.err.code = "CARRIER_API_ERROR"
  /\ ret.err.httpStatus = 503 /\ ret.err.retryable

\* C21 (failed credential exchange): acquireToken() rejects with a
\* CarrierError for UPS when the exchange fails: TIMEOUT for a timeout code;
\* else NETWORK_ERROR without a response; else AUTH_FAILED, not retryable,
\* for 401 and 403; RATE_LIMITED, retryable, for 429, with retryAfterMs the
\* retry-after seconds times 1000 when the header is there; AUTH_FAILED
\* with the status for every other status; and AUTH_FAILED for a success
\* response without access_token or expires_in.
C21_AuthFailureClassification ==
  (arg.fn = "acquireToken" /\ ret /= NoRes)
  => LET e == arg.x
         r == ret.err
     IN IF e.type = "response"
        THEN IF e.access_token = "" \/ e.expires_in = 0
             THEN /\ ret.st = "rejected" /\ isCarrierError(r)
                  /\ r.code = "AUTH_FAILED" /\ ~r.retryable
             ELSE ret.st = "resolved" /\ ret.token = e.access_token
        ELSE /\ ret.st = "rejected" /\ isCarrierError(r)
             /\ e.type = "AxiosError"
                => /\ r.carrier = "UPS"
                   /\ IF e.code \in {"ECONNABORTED", "ETIMEDOUT"}
                      THEN r.code = "TIMEOUT"
                      ELSE IF ~e.hasResponse
                      THEN r.code = "NETWORK_ERROR"
                      ELSE IF e.status = 429
                      THEN /\ r.code = "RATE_LIMITED" /\ r.retryable
                           /\ e.retryAfter /= -1
                              => r.retryAfterMs = e.retryAfter * 1000
                           /\ e.retryAfter = -1 => r.retryAfterMs = -1
                      ELSE /\ r.code = "AUTH_FAILED" /\ ~r.retryable
                           /\ r.httpStatus = e.status

\* The token endpoint answered 503: the exchange rejected with AUTH_FAILED
\* carrying 503, not retryable.
C21_Witness ==
  /\ arg.fn = "acquireToken" /\ arg.x = AxiosError("", TRUE, 503, -1)
  /\ ret.st = "rejected" /\ ret.err.code = "AUTH_FAILED"
  /\ ret.err.httpStatus = 503 /\ ~ret.err.retryable

\* C22 (expiry buffer): a getAccessToken() call returns the cached token,
\* starting and joining no acquisition, exactly when a token is cached and
\* now < expiresAt - 60000, and else waits for an acquisition; the
\* expiresAt of acquired token data is the time of the answer plus
\* expires_in times 1000; so a token issued with expires_in of 60 or less
\* is expired from the moment it is stored.
C22_ExpiryBuffer ==
  [][ /\ \A p \in Procs :
           ( /\ pc[p] \in {"idle", "done"}
             /\ <<pc[p], op[p], nGet[p], res[p], tok[p], awaiting[p]>>
                  /= <<pc'[p], op'[p], nGet'[p], res'[p], tok'[p],
                       awaiting'[p]>> )
           => IF token /= NoToken /\ now < token.expiresAt - 60000
              THEN /\ tok'[p] = token.accessToken /\ awaiting'[p] = 0
                   /\ pc'[p] /= "awaitToken"
                   /\ acq' = acq /\ inflightRequest' = inflightRequest
              ELSE /\ pc'[p] = "awaitToken" /\ awaiting'[p] /= 0
                   /\ acq'[awaiting'[p]].st = "pending"
                   /\ inflightRequest' = awaiting'[p]
      /\ \A a \in DOMAIN acq :
           (acq[a].st = "pending" /\ acq'[a].st = "settled" /\ acq'[a].val.ok)
           => acq'[a].val.data.expiresAt = now + acq'[a].expiresIn * 1000
      /\ ( /\ DeliverStep /\ acq[Head(deliveries)].val.ok
           /\ acq[Head(deliveries)].expiresIn <= 60
           /\ token' = acq[Head(deliveries)].val.data )
         => ~(now' < token'.expiresAt - 60000) ]_vars

\* A token acquired at time 0 with expires_in 120 is cached, the clock
\* stands at 60000, the edge of the buffer, and a getAccessToken() call
\* waits for a second acquisition.
C22_Witness ==
  /\ now = 60000 /\ token /= NoToken /\ token.expiresAt = 120000
  /\ \E p \in Procs :
       /\ pc[p] = "awaitToken" /\ awaiting[p] = 2 /\ nInval[p] = 0
       /\ acq[2].st = "pending" /\ acq[1].st = "delivered"

\* The response that carries the one rated shipment of body in the other
\* shape: the object as a one-element array, the one-element array as its
\* object.
OtherShape(body) ==
  IF body.isArray
  THEN Body(TRUE, TRUE, FALSE, body.arr[1], <<>>)
  ELSE Body(TRUE, TRUE, TRUE, NoShipment, <<body.obj>>)

\* C23 (shape normalization): what parseResponse() gives for a response
\* whose RatedShipment is one object is what it gives for the response with
\* that object in a one-element array, and the other way round.
C23_SingleObjectAsArray ==
  ( /\ arg.fn = "parseResponse" /\ ret /= NoRes
    /\ arg.x.wrapper /\ arg.x.present
    /\ arg.x.isArray => Len(arg.x.arr) = 1 )
  => ret = parseResponse(OtherShape(arg.x))

\* One rated shipment sent as an object gave the one quote mapped from it.
C23_Witness ==
  /\ arg.fn = "parseResponse" /\ ~arg.x.isArray
  /\ arg.x.obj = RatedShipment("03", 15)
  /\ ret.st = "resolved"
  /\ ret.quotes = <<mapFromUpsRatedShipment(RatedShipment("03", 15))>>
  /\ ret = parseResponse(Body(TRUE, TRUE, TRUE, NoShipment,
                              <<RatedShipment("03", 15)>>))

\* C24 (missing wrapper or field): for a response without the RateResponse
\* wrapper, or without its RatedShipment field, parseResponse() throws a
\* CarrierError MALFORMED_RESPONSE for UPS that is not retryable, and
\* returns no quotes.
C24_MalformedResponseRejected ==
  ( /\ arg.fn = "parseResponse" /\ ret /= NoRes
    /\ (~arg.x.wrapper \/ ~arg.x.present) )
  => /\ ret.st = "rejected" /\ ret.quotes = <<>>
     /\ isCarrierError(ret.err) /\ ret.err.carrier = "UPS"
     /\ ret.err.code = "MALFORMED_RESPONSE" /\ ~ret.err.retryable

\* The wrapper was there, the RatedShipment field was not.
C24_Witness ==
  /\ arg.fn = "parseResponse" /\ arg.x.wrapper /\ ~arg.x.present
  /\ ret.st = "rejected" /\ ret.err.code = "MALFORMED_RESPONSE"
  /\ ~ret.err.retryable

\* C25 (invalidateToken): a call of invalidateToken() from outside post()
\* leaves the cached token absent, whatever was cached, and touches nothing
\* else: no acquisition is started, settled or dropped, the in-flight slot
\* and every caller stay as they are; the state it leaves is the state a
\* second call leaves, and hasValidToken() is false in it.
C25_InvalidateIdempotentNoIO ==
  [][ ( /\ nInval' = nInval
        /\ \/ ~inval /\ inval'
           \/ token /= NoToken /\ token' = NoToken )
      => /\ token' = NoToken /\ inval'
         /\ ~(token' /= NoToken /\ now' < token'.expiresAt - EXPIRY_BUFFER_MS)
         /\ UNCHANGED <<inflightRequest, acq, deliveries, now, pc, op,
                        awaiting, tok, retry, res, nGet, nHttp, firstErr>> ]_vars

\* A token had been cached and delivered, an acquisition is in flight, and
\* invalidateToken() was called: the token is absent, the acquisition is
\* still in the slot, pending.
C25_Witness ==
  /\ inval /\ token = NoToken
  /\ acq /= <<>> /\ acq[1].st = "delivered"
  /\ inflightRequest = 2 /\ acq[2].st = "pending"
  /\ \A p \in Procs : nInval[p] = 0 /\ res[p].st /= "rejected"

\* C26 (hasValidToken): a call of hasValidToken() changes nothing of the
\* auth manager and of its callers: token, in-flight slot and acquisitions
\* are as before; and it answers true exactly in the states in which a
\* getAccessToken() call made next returns the cached token and neither
\* starts nor joins an acquisition.
C26_HasValidTokenPure ==
  [][ /\ (arg'.fn = "hasValidToken" /\ <<arg, ret>> /= <<arg', ret'>>)
         => /\ UNCHANGED <<token, inflightRequest, acq, deliveries, now, pc,
                           op, awaiting, tok, retry, res, nGet, nInval,
                           nHttp, firstErr, inval>>
            /\ ret'.st \in {"true", "false"}
            /\ ret'.st = "true"
               <=> ( /\ token /= NoToken
                     /\ now < token.expiresAt - EXPIRY_BUFFER_MS )
      /\ \A p \in Procs :
           ( /\ pc[p] \in {"idle", "done"}
             /\ <<pc[p], op[p], nGet[p], res[p], tok[p], awaiting[p]>>
                  /= <<pc'[p], op'[p], nGet'[p], res'[p], tok'[p],
                       awaiting'[p]>> )
           => ( hasValidToken
                <=> /\ pc'[p] /= "awaitToken" /\ awaiting'[p] = 0
                    /\ tok'[p] = token.accessToken
                    /\ acq' = acq /\ inflightRequest' = inflightRequest ) ]_vars

\* hasValidToken() answered true with a token cached, and the
\* getAccessToken() call of a caller was served from the cache.
C26_Witness ==
  /\ arg.fn = "hasValidToken" /\ ret.st = "true"
  /\ token /= NoToken /\ ~isExpired(token, now)
  /\ \E p \in Procs :
       /\ op[p] = "get" /\ pc[p] = "done" /\ awaiting[p] = 0
       /\ res[p] = ResolvedToken(token.accessToken)

\* C27 (one provider per carrier): register() of a provider whose carrier
\* id is registered throws CONFIGURATION_ERROR and leaves the registry as it
\* is, the first provider still in its place; register() of any other
\* provider adds it; so the registry never holds two providers of one
\* carrier id.
C27_OneProviderPerCarrier ==
  [][ /\ \A i, j \in DOMAIN registry' :
           registry'[i].carrierId = registry'[j].carrierId => i = j
      /\ (arg'.fn = "register" /\ <<arg, ret, registry>> /= <<arg', ret', registry'>>)
         => IF \E i \in DOMAIN registry :
                 registry[i].carrierId = arg'.x.carrierId
            THEN /\ registry' = registry
                 /\ ret'.st = "rejected" /\ isCarrierError(ret'.err)
                 /\ ret'.err.code = "CONFIGURATION_ERROR"
            ELSE /\ registry' = Append(registry, arg'.x)
                 /\ ret'.st = "returned" ]_vars

\* UPS was registered for rating; registering another UPS provider, for
\* tracking, was refused and the first one is still the UPS provider.
C27_Witness ==
  /\ arg.fn = "register" /\ arg.x = Provider("UPS", {"track"})
  /\ ret.st = "rejected" /\ ret.err.code = "CONFIGURATION_ERROR"
  /\ registry = <<Provider("UPS", {"rate"}), Provider("FEDEX", {"track"})>>

\* The carrier ids of the registered providers.
RegisteredIds == {registry[i].carrierId : i \in DOMAIN registry}

\* C28 (carrier resolution): while a getQuotes() call waits for its
\* carriers, getRates() has been called on the requested carriers that are
\* registered and on no other provider when the request names carriers;
\* and on the registered providers that support 'rate', each once and no
\* other, when it names none.
C28_CarrierResolution ==
  qpc = "fanout"
  => IF request.carriers /= <<>>
     THEN /\ carriers = request.carriers
          /\ \A c \in RegisteredIds :
               InSeq(c, calls) <=> InSeq(c, request.carriers)
          /\ \A i \in DOMAIN calls : calls[i] \in RegisteredIds
     ELSE /\ calls = carriers
          /\ \A i, j \in DOMAIN calls : calls[i] = calls[j] => i = j
          /\ \A k \in DOMAIN registry :
               InSeq(registry[k].carrierId, calls)
               <=> "rate" \in registry[k].supportedOperations
          /\ \A i \in DOMAIN calls : calls[i] \in RegisteredIds

\* UPS, for rating, and FEDEX, for tracking, are registered and the
\* request names no carrier: getRates() was called on UPS alone.
C28_Witness ==
  /\ qpc = "fanout" /\ request.carriers = <<>>
  /\ RegisteredIds = {"UPS", "FEDEX"}
  /\ carriers = <<"UPS">> /\ calls = <<"UPS">>

\* The tasks that rejected because their carrier has no provider.
LookupFailures ==
  {i \in FailedTasks : /\ isCarrierError(results[i].reason)
                       /\ results[i].reason.code = "CARRIER_UNAVAILABLE"}

\* C29 (unregistered carriers): the task of a requested carrier without a
\* provider rejects with CARRIER_UNAVAILABLE for that carrier id; when no
\* requested carrier has a provider getQuotes() raises that error for the
\* first of them; and when another carrier returned quotes getQuotes()
\* resolves with exactly the quotes returned.
C29_UnregisteredCarrier ==
  (qpc = "done" /\ LookupFailures /= {})
  => /\ \A i \in LookupFailures :
          /\ results[i].reason.carrier = carriers[i]
          /\ ~InSeq(carriers[i], calls)
     /\ LookupFailures = DOMAIN results
        => /\ qres.st = "rejected"
           /\ qres.err.code = "CARRIER_UNAVAILABLE"
           /\ qres.err.carrier = carriers[1] /\ ~qres.err.retryable
     /\ FulfilledQuotes /= {}
        => /\ qres.st = "resolved"
           /\ ExactlyFulfilledQuotes(qres.quotes)

\* Only DHL was requested and it has no provider: getQuotes() raised
\* CARRIER_UNAVAILABLE for DHL, and no provider was called.
C29_Witness ==
  /\ qpc = "done" /\ request.carriers = <<"DHL">> /\ calls = <<>>
  /\ qres.st = "rejected" /\ qres.err.code = "CARRIER_UNAVAILABLE"
  /\ qres.err.carrier = "DHL"

\* The errors getQuotes() has collected from the settled tasks.
CollectedErrors == collectErrors(results, carriers)

\* The place in the collected errors of the error of failed task i.
ErrorRank(i) == Cardinality({j \in FailedTasks : j <= i})

\* C30 (coercion): getQuotes() collects one error per rejected task, in
\* task order: the rejection reason itself when it is a CarrierError, else
\* a CarrierError UNKNOWN, not retryable, for the carrier at the task's
\* position in the resolved list; the error it raises is the first of them.
C30_UnknownCoercion ==
  (qpc = "done" /\ FailedTasks /= {})
  => /\ Len(CollectedErrors) = Cardinality(FailedTasks)
     /\ \A i \in FailedTasks :
          LET e == CollectedErrors[ErrorRank(i)]
          IN IF isCarrierError(results[i].reason)
             THEN e = results[i].reason
             ELSE /\ isCarrierError(e) /\ e.code = "UNKNOWN"
                  /\ e.carrier = carriers[i] /\ ~e.retryable
     /\ qres.st = "rejected" => qres.err = CollectedErrors[1]

\* UPS, first, rejected with a CarrierError and FEDEX, second, with a plain
\* error: the errors are the UPS error as it was and UNKNOWN for FEDEX.
C30_Witness ==
  /\ qpc = "done" /\ carriers = <<"UPS", "FEDEX">> /\ FailedTasks = {1, 2}
  /\ isCarrierError(results[1].reason) /\ ~isCarrierError(results[2].reason)
  /\ CollectedErrors[1] = results[1].reason
  /\ CollectedErrors[2].code = "UNKNOWN"
  /\ CollectedErrors[2].carrier = "FEDEX"
  /\ qres.st = "rejected" /\ qres.err = results[1].reason

\* C31: the endpoint variant chosen by getRates() and the RequestOption
\* written by the mapper agree: both are 'Rate' when the request has a
\* serviceLevel and both are 'Shop' when it has none, and the wire request
\* has a Service block only in 'Rate' mode.
C31_EndpointAgreesWithRequestOption ==
  (arg.fn = "getRates" /\ ret.st = "posted") =>
    LET mode == IF arg.x.serviceLevel \in ServiceLevels THEN "Rate"
                ELSE "Shop"
    IN /\ ret.value.path = mode
       /\ ret.value.payload.RequestOption = mode
       /\ (ret.value.payload.Service /= NoService) => mode = "Rate"

\* A request for GROUND went to the Rate endpoint with the Service block of
\* code '03'.
C31_Witness ==
  /\ arg.fn = "getRates" /\ ret.st = "posted"
  /\ arg.x.serviceLevel = "GROUND"
  /\ ret.value.path = "Rate" /\ ret.value.payload.Service.Code = "03"

\* C32: the level-to-code and code-to-level tables are mutually inverse
\* bijections between the 12 service levels and 12 UPS codes, and the
\* display-name table has exactly these codes; hence the Service code of
\* every request with a serviceLevel maps back to that level, and the
\* level of a quote of a known code maps back to that code.
C32_ServiceTablesInverse ==
  /\ DOMAIN SERVICE_LEVEL_TO_UPS_CODE = ServiceLevels
  /\ Cardinality(ServiceLevels) = 12
  /\ Cardinality(DOMAIN UPS_SERVICE_CODE_TO_LEVEL) = 12
  /\ DOMAIN UPS_SERVICE_NAMES = DOMAIN UPS_SERVICE_CODE_TO_LEVEL
  /\ \A lv \in ServiceLevels :
       Lookup(UPS_SERVICE_CODE_TO_LEVEL, SERVICE_LEVEL_TO_UPS_CODE[lv]) = lv
  /\ \A c \in DOMAIN UPS_SERVICE_CODE_TO_LEVEL :
       Lookup(SERVICE_LEVEL_TO_UPS_CODE, UPS_SERVICE_CODE_TO_LEVEL[c]) = c
  /\ (arg.fn = "getRates" /\ ret.st = "posted"
        /\ arg.x.serviceLevel /= Undefined)
     => /\ ret.value.payload.Service /= NoService
        /\ Lookup(UPS_SERVICE_CODE_TO_LEVEL, ret.value.payload.Service.Code)
             = arg.x.serviceLevel
        /\ ret.value.payload.Service.Description /= Undefined
  /\ (arg.fn = "mapFromUpsRatedShipment" /\ ret.st = "returned"
        /\ arg.x.Service \in DOMAIN UPS_SERVICE_CODE_TO_LEVEL)
     => Lookup(SERVICE_LEVEL_TO_UPS_CODE, ret.value.serviceLevel)
          = arg.x.Service

\* A request for EXPRESS was posted with Service code '07'.
C32_Witness ==
  /\ arg.fn = "getRates" /\ ret.st = "posted"
  /\ arg.x.serviceLevel = "EXPRESS"
  /\ ret.value.payload.Service.Code = "07"
  /\ UPS_SERVICE_CODE_TO_LEVEL["07"] = "EXPRESS"

\* The itemized charges of the shipment given to mapFromUpsRatedShipment(),
\* a single object read as a list of one.
ChargeLines ==
  IF ~arg.x.ItemizedCharges.present THEN <<>>
  ELSE IF arg.x.ItemizedCharges.isArray THEN arg.x.ItemizedCharges.arr
  ELSE <<arg.x.ItemizedCharges.obj>>

\* The positions of the lines of strictly positive amount.
PositiveLines ==
  {i \in DOMAIN ChargeLines :
     LET amount == parseFloat(ChargeLines[i].MonetaryValue)
     IN ~amount.nan /\ amount.n > 0}

\* The k-th position of PositiveLines, in increasing order.
PositiveLine(k) ==
  CHOOSE i \in PositiveLines :
    Cardinality({j \in PositiveLines : j <= i}) = k

\* C33: the surcharges of a mapped quote are exactly the itemized charges
\* of strictly positive amount, in their original order, each with its
\* code, its description (when it has one) and its currency; lines of
\* amount zero are dropped, and a single itemized-charge object is treated
\* like a list of one.
C33_SurchargeFiltering ==
  (arg.fn = "mapFromUpsRatedShipment" /\ ret.st = "returned") =>
    /\ Len(ret.value.surcharges) = Cardinality(PositiveLines)
    /\ \A k \in DOMAIN ret.value.surcharges :
         LET line == ChargeLines[PositiveLine(k)]
             sur == ret.value.surcharges[k]
         IN /\ sur.code = line.Code
            /\ sur.currency = line.CurrencyCode
            /\ sur.amount = parseFloat(line.MonetaryValue).n
            /\ line.Description /= Undefined
                 => sur.description = line.Description

\* Of the lines 0.00, 2.5 (CAD) and 1.50, the second and the third were
\* kept, in this order.
C33_Witness ==
  /\ arg.fn = "mapFromUpsRatedShipment" /\ ret.st = "returned"
  /\ arg.x.ItemizedCharges.isArray
  /\ Len(arg.x.ItemizedCharges.arr) = 3
  /\ arg.x.ItemizedCharges.arr[1].MonetaryValue = "0.00"
  /\ arg.x.ItemizedCharges.arr[2].MonetaryValue = "2.5"
  /\ arg.x.ItemizedCharges.arr[3].MonetaryValue = "1.50"
  /\ Len(ret.value.surcharges) = 2
  /\ ret.value.surcharges[1].currency = "CAD"
  /\ ret.value.surcharges[2].code = "375"

\* C34: when the getAccessToken() awaited by post() rejects, on the first
\* attempt or on the retry, also with an AUTH_FAILED error of upstream
\* status 401, the catch block does not take it for a 401 of the rating
\* call: post() rejects with that very CarrierError, calls neither
\* invalidateToken() nor getAccessToken() again and sends no rating request.
C34_TokenRejectionPropagates ==
  [][\A p \in Procs :
       (/\ DeliverStep
        /\ p \in Awaiters(Head(deliveries))
        /\ op[p] = "post"
        /\ ~acq[Head(deliveries)].val.ok)
       => LET error == acq[Head(deliveries)].val.err
          IN /\ isCarrierError(error) /\ ~isAuthRejection(error)
             /\ pc'[p] = "done" /\ res'[p] = Rejected(error)
             /\ token' = token
             /\ nInval'[p] = nInval[p]
             /\ nGet'[p] = nGet[p]
             /\ nHttp'[p] = nHttp[p]]_vars

\* A post() whose first rating call got a 401 invalidated the token, and the
\* credential exchange of its retry was rejected with 401: it rejected with
\* AUTH_FAILED of status 401 after one rating call and one invalidation.
C34_Witness ==
  \E p \in Procs :
    /\ op[p] = "post" /\ pc[p] = "done" /\ retry[p]
    /\ res[p] = Rejected(authError("UPS", 401))
    /\ nHttp[p] = 1 /\ nInval[p] = 1 /\ nGet[p] = 2

\* C35 (as claimed): the invalidateToken() that post() calls for a 401 of a
\* request sent with token T discards only T.  Here for the case the claim
\* names: both tokens came from the only two acquisitions so far, the
\* second one made by the retry of another post() that had got a 401; the
\* 401 of caller p, whose request was sent with the first token, arrives
\* when the second token is cached, and the claim has that token stay.
C35_RejectionInvalidatesOnlyItsToken ==
  [][\A p, q \in Procs :
       (/\ p /= q
        /\ Len(acq) = 2 /\ acq[2].st = "delivered"
        /\ op[q] = "post" /\ retry[q] /\ awaiting[q] = 2
        /\ token /= NoToken /\ tok[q] = token.accessToken
        /\ pc[p] = "awaitHttp" /\ ~retry[p]
        /\ tok[p] /= token.accessToken
        /\ nInval'[p] = nInval[p] + 1)
       => token' = token]_vars

\* The acquisitions whose awaiters have resumed.
DeliveredAcqs == {a \in DOMAIN acq : acq[a].st = "delivered"}

C37_EveryCallSettles ==
  /\ \A p \in Procs :
       (pc[p] = "awaitToken") ~> (pc[p] = "done" /\ res[p].st /= "none")
  /\ (inflightRequest /= NoInflight) ~> (inflightRequest = NoInflight)

\* A caller that joined the acquisition started by the other one settled
\* after invalidateToken() had been called, and the slot is empty.
C37_Witness ==
  \E p, q \in Procs :
    /\ p /= q /\ awaiting[p] = awaiting[q] /\ awaiting[p] /= 0
    /\ pc[p] = "done" /\ pc[q] = "done"
    /\ res[p].st /= "none" /\ res[q].st /= "none"
    /\ inval
    /\ inflightRequest = NoInflight

====
